---------------------------- MODULE Spec2Model ----------------------------
(***************************************************************************)
(* A model of hastin's metric store (Modules/MetricManager.py), replay     *)
(* recorder/player (Modules/ReplayManager.py), poll scheduler              *)
(* (Modules/WorkerManager.py, KeyEventManager.py, TabManager.py) and       *)
(* database connection (Modules/PostgreSQL.py).                            *)
(*                                                                         *)
(* Time is counted in ticks of half a second, so that strftime's cut to    *)
(* whole seconds is visible.  A polling latency of g ticks is g/2 seconds. *)
(***************************************************************************)
EXTENDS Integers, Sequences, FiniteSets, TLC

VARIABLES
    mm,        \* the MetricManager of the live session
    now,       \* wall clock, in ticks
    prev,      \* history: mm as it was before the last operation on it
    hist       \* history: the operations applied to mm so far, with their inputs

metricVars == <<mm, now, prev, hist>>

VARIABLES
    db,        \* one Database object (the secondary connection of a session)
    cursors,   \* the rows each cursor made on the connection still holds
    th,        \* the threads that run a command on db: position and locals
    faults,    \* the errors the server may still answer a query with, and
               \* the reconnects it may still refuse
    started    \* number of commands started so far

dbVars == <<db, cursors, th, faults, started>>

VARIABLES
    file,      \* the recording of the live session: lines written, closed or not
    rec,       \* history: store and inputs of the live session at each capture_state
    rp         \* the session that replays the recording

replayVars == <<file, rec, rp>>

VARIABLES
    sch,       \* the tab and its Hastin, as far as the poll scheduler goes
    workers,   \* the poll workers started for the tab: state and position
    timers,    \* the timers set for the tab: pending, fired or stopped
    events     \* the Worker.StateChanged messages queued for the event loop

schedVars == <<sch, workers, timers, events>>

VARIABLES
    kem,       \* the KeyEventManager of the application: clock, last_key_time, presses
    graph,     \* the Graph widgets of the tab: what each was given and what it plots
    man        \* a ReplayManager taken by itself: its attributes, its file, the calls made

vars == <<metricVars, dbVars, replayVars, schedVars, kem, graph, man>>

\* what the operations on one part of the program leave alone
nonMetricVars == <<dbVars, replayVars, schedVars, kem, graph, man>>
nonDbVars == <<metricVars, replayVars, schedVars, kem, graph, man>>
nonReplayVars == <<dbVars, schedVars, kem, graph, man>>

-----------------------------------------------------------------------------
(* Bounds of the exploration *)

MaxCycles == 3

\* errors the server may answer with, and commands that may be started
MaxFaults == 1
MaxCommands == 2

\* frames recorded, and replay steps asked for after the end of the log
MaxFrames == 2
MaxExtraCalls == 2

\* poll workers started for a tab
MaxWorkers == 2

-----------------------------------------------------------------------------
(* Values *)

\* An optional value is a sequence of length at most one: <<>> is Python's
\* None (or a key that is not in a dict), <<v>> is the value v.
None == <<>>
Some(v) == <<v>>

TicksPerSecond == 2

\* timedelta(minutes=10), in seconds
RetentionSeconds == 600

\* ConnectionSource values the metric manager can hold: Database.source is
\* always postgresql, Hastin.pgbouncer_mode selects pgbouncer.
postgresql == "PostgreSQL"
pgbouncer == "PgBouncer"
rds == "Amazon RDS"
aurora == "Amazon Aurora"

SessionSources == {postgresql, pgbouncer}

\* _all_pg_sources(), restricted to the sources named in this model
AllPgSources == {postgresql, rds, aurora}

\* connection_source of the System*Metrics groups
SystemSources == {postgresql, rds, pgbouncer}

\* MetricSource
SYSTEM_UTILIZATION == "system_utilization"
DATABASE_STATS == "database_stats"
PGBOUNCER_POOLS == "pgbouncer_pools"
PGBOUNCER_STATS == "pgbouncer_stats"
NONE == "none"

-----------------------------------------------------------------------------
(* The registry built by MetricManager.reset: one series of every kind of  *)
(* the catalog, in the order of MetricInstances' fields.                    *)

SeriesOrder ==
    << "CPU_Percent", "Memory_Total", "xact_commit", "cache_hit_ratio",
       "lag", "cl_active", "xact_count" >>

Series == { SeriesOrder[i] : i \in 1..Len(SeriesOrder) }

\* group (field of MetricInstances), metric_source and connection_source of
\* the group, and the MetricData flags of the series
Registry ==
    [ CPU_Percent |->
        [ group |-> "system_cpu", source |-> SYSTEM_UTILIZATION,
          conn |-> SystemSources, per_second |-> FALSE, save_history |-> TRUE ],
      Memory_Total |->
        [ group |-> "system_memory", source |-> SYSTEM_UTILIZATION,
          conn |-> SystemSources, per_second |-> FALSE, save_history |-> FALSE ],
      xact_commit |->
        [ group |-> "pg_transactions", source |-> DATABASE_STATS,
          conn |-> AllPgSources, per_second |-> TRUE, save_history |-> TRUE ],
      cache_hit_ratio |->
        [ group |-> "pg_cache_hit_ratio", source |-> NONE,
          conn |-> AllPgSources, per_second |-> FALSE, save_history |-> TRUE ],
      lag |->
        [ group |-> "replication_lag", source |-> NONE,
          conn |-> {postgresql}, per_second |-> FALSE, save_history |-> TRUE ],
      cl_active |->
        [ group |-> "pgbouncer_connections", source |-> PGBOUNCER_POOLS,
          conn |-> {pgbouncer}, per_second |-> FALSE, save_history |-> TRUE ],
      xact_count |->
        [ group |-> "pgbouncer_traffic", source |-> PGBOUNCER_STATS,
          conn |-> {pgbouncer}, per_second |-> TRUE, save_history |-> TRUE ] ]

\* _all_metrics_data_history
AllMetricsDataHistory == { s \in Series : Registry[s].save_history }

\* the series of _source_to_metrics_processing (those with a source)
SourceToMetricsProcessing == { s \in Series : Registry[s].source # NONE }

\* Raw fields of the data stores refresh_data updates, with their category
RawFields ==
    { "CPU_Percent", "Memory_Total", "xact_commit", "blks_hit", "blks_read",
      "cl_active", "xact_count", "Seconds_Behind" }


\* a raw value that is no number: null, or a text that int() cannot read;
\* kept as a pair of a placeholder and what it is
Null == << 0, "null" >>
Text == << 0, "text" >>
Malformed(v) == Len(v) = 2

\* dict.get(name, 0) on a raw data store, for a value that is a number
Get(store, name) == IF store[name] = None THEN 0 ELSE store[name][1]

\* dict.update(snap): the keys of snap overwrite, the others are kept
Update(store, snap) ==
    [ f \in DOMAIN store |-> IF snap[f] = None THEN store[f] ELSE snap[f] ]

-----------------------------------------------------------------------------
(* Arithmetic of the ingest *)

Abs(x) == IF x < 0 THEN -x ELSE x

\* int(a / n) for n > 0: Python's int() cuts towards zero
IntTrunc(a, n) == IF a >= 0 THEN a \div n ELSE -((-a) \div n)

\* round(a / n) for n > 0: Python rounds a half to the even neighbour
RoundDiv(a, n) ==
    LET q == a \div n
        r == a - q * n
    IN  IF 2 * r < n THEN q
        ELSE IF 2 * r > n THEN q + 1
        ELSE IF q % 2 = 0 THEN q ELSE q + 1

RECURSIVE SumSeq(_)
SumSeq(s) == IF s = <<>> THEN 0 ELSE s[1] + SumSeq(Tail(s))

\* list(values)[-2:]: a window of two samples
LastTwo(s) ==
    IF Len(s) <= 2 THEN s ELSE SubSeq(s, Len(s) - 1, Len(s))

\* list(values)[-3:]
LastThree(s) ==
    IF Len(s) <= 3 THEN s ELSE SubSeq(s, Len(s) - 2, Len(s))

\* worker_start_time.strftime("%d/%m/%y %H:%M:%S"): the whole second the
\* instant lies in (the string is represented by that count of seconds)
Strftime(t) == t \div TicksPerSecond

\* datetime.strptime(s, "%d/%m/%y %H:%M:%S").astimezone(): the instant at
\* the start of that second
Strptime(s) == s * TicksPerSecond

-----------------------------------------------------------------------------
(* MetricManager *)

EmptyRaw == [ f \in RawFields |-> None ]

\* Faulty variant of Reset: the series keep their baselines
ResetKeepingLastValue(m) ==
    [ m EXCEPT !.initialized = FALSE,
               !.polling_latency = 0,
               !.datetimes = <<>>,
               !.raw = EmptyRaw,
               !.values = [ s \in Series |-> <<>> ] ]

\* MetricManager.reset: the registry is rebuilt (every MetricData fresh),
\* the clock and the raw data stores are cleared
Reset(m) ==
    [ m EXCEPT !.initialized = FALSE,
               !.polling_latency = 0,
               !.datetimes = <<>>,
               !.raw = EmptyRaw,
               !.values = [ s \in Series |-> <<>> ],
               !.last_value = [ s \in Series |-> None ] ]

\* MetricManager.__init__
NewMetricManager(replay_file, daemon_mode) ==
    Reset([ connection_source |-> postgresql,
            replay_file |-> replay_file,
            daemon_mode |-> daemon_mode,
            worker_start_time |-> None,
            initialized |-> FALSE,
            polling_latency |-> 0,
            datetimes |-> <<>>,
            raw |-> EmptyRaw,
            values |-> [ s \in Series |-> <<>> ],
            last_value |-> [ s \in Series |-> None ] ])

\* Faulty variant of AddMetric: the value is appended whatever save_history is
AddMetricAppending(initialized, s, vals, value) ==
    IF ~initialized THEN vals ELSE Append(vals, value)

\* MetricManager.add_metric, on the values of one series
AddMetric(initialized, s, vals, value) ==
    IF ~initialized THEN vals
    ELSE IF Registry[s].save_history THEN Append(vals, value)
    ELSE IF vals # <<>> THEN [ vals EXCEPT ![1] = value ]
    ELSE Append(vals, value)

\* Faulty variant of MetricStatusPerSec: the rate is taken from the raw counter
\* itself, the previous raw value is not subtracted
MetricStatusPerSecNoDelta(m, s) ==
    LET cur == Get(m.raw, s) IN
    IF Registry[s].per_second
    THEN IF m.polling_latency > 0
         THEN RoundDiv(cur * TicksPerSecond, m.polling_latency)
         ELSE 0
    ELSE cur

\* Faulty variant of MetricStatusPerSec: a cycle time of 0 is taken as one tick
MetricStatusPerSecNoGuard(m, s) ==
    LET cur == Get(m.raw, s)
        lat == IF m.polling_latency > 0 THEN m.polling_latency ELSE 1
    IN  IF Registry[s].per_second
        THEN RoundDiv((cur - m.last_value[s][1]) * TicksPerSecond, lat)
        ELSE cur

\* metric_status_per_sec of update_metrics_per_second_values, before the
\* CPU_Percent special case
MetricStatusPerSec(m, s) ==
    LET cur == Get(m.raw, s) IN
    IF Registry[s].per_second
    THEN IF m.polling_latency > 0
         THEN RoundDiv((cur - m.last_value[s][1]) * TicksPerSecond, m.polling_latency)
         ELSE 0
    ELSE cur

\* the values of series s after the body of the loop of
\* update_metrics_per_second_values has run for it
ProcessedValues(m, s) ==
    LET v == MetricStatusPerSec(m, s)
        vals == m.values[s]
    IN  IF s # "CPU_Percent" THEN AddMetric(m.initialized, s, vals, v)
        ELSE IF Len(vals) = 1 /\ vals[1] = 0
             THEN AddMetric(m.initialized, s, [ vals EXCEPT ![1] = v ], v)
        ELSE IF /\ v \in {0, 100}
                /\ Abs(v - (IF vals # <<>> THEN vals[Len(vals)] ELSE 0)) > 10
                /\ vals # <<>>
             THEN AddMetric(m.initialized, s, vals,
                            IntTrunc(SumSeq(LastThree(vals)), Len(LastThree(vals))))
        ELSE AddMetric(m.initialized, s, vals, v)

\* metric_data.last_value = current_metric_source_value, v being the entry
\* of the raw data store: 0 for a key that is missing, None for null
AsLastValue(v) ==
    IF v = None THEN Some(0)
    ELSE IF v = Null THEN None
    ELSE v

\* the place of series s in the order of the loops over the registry
Place(s) == CHOOSE i \in 1..Len(SeriesOrder) : SeriesOrder[i] = s

\* Faulty variant of Applicable: the connection source is not looked at
ApplicableAnySource(m, s) == s \in SourceToMetricsProcessing

\* the series the loop of update_metrics_per_second_values does not skip
Applicable(m, s) ==
    /\ s \in SourceToMetricsProcessing
    /\ m.connection_source \in Registry[s].conn

\* the loop of update_metrics_per_second_values over the series before
\* place n
PerSecondBefore(m, n) ==
    [ m EXCEPT
        !.values = [ s \in Series |->
            IF Place(s) < n /\ Applicable(m, s) /\ m.last_value[s] # None
            THEN ProcessedValues(m, s) ELSE m.values[s] ],
        !.last_value = [ s \in Series |->
            IF Place(s) < n /\ Applicable(m, s) /\ m.last_value[s] = None
            THEN AsLastValue(m.raw[s]) ELSE m.last_value[s] ] ]

\* MetricManager.update_metrics_per_second_values
UpdateMetricsPerSecondValues(m) == PerSecondBefore(m, Len(SeriesOrder) + 1)

\* MetricManager.update_metrics_replication_lag
UpdateMetricsReplicationLag(m) ==
    [ m EXCEPT !.values["lag"] =
        AddMetric(m.initialized, "lag", @, Get(m.raw, "Seconds_Behind")) ]

\* hit_ratio of update_pg_cache_hit_ratio, after add_metric's int():
\* round(x, 1) rounds to tenths of a percent and int() cuts the tenths
HitRatio(m) ==
    LET blks_hit == Get(m.raw, "blks_hit")
        total_blocks == blks_hit + Get(m.raw, "blks_read")
    IN  IF total_blocks > 0
        THEN IntTrunc(RoundDiv(blks_hit * 1000, total_blocks), 10)
        ELSE 100

\* MetricManager.update_pg_cache_hit_ratio
UpdatePgCacheHitRatio(m) ==
    [ m EXCEPT !.values["cache_hit_ratio"] =
        AddMetric(m.initialized, "cache_hit_ratio", @, HitRatio(m)) ]

\* MetricManager.update_metrics_last_value
UpdateMetricsLastValue(m) ==
    [ m EXCEPT !.last_value = [ s \in Series |->
        IF s \in SourceToMetricsProcessing THEN AsLastValue(m.raw[s])
        ELSE m.last_value[s] ] ]

\* MetricManager.add_metric_datetime
AddMetricDatetime(m) ==
    IF m.initialized /\ ~m.replay_file /\ m.worker_start_time # None
    THEN [ m EXCEPT !.datetimes = Append(@, Strftime(m.worker_start_time[1])) ]
    ELSE m

\* Faulty variant of PopLeft: the newest entries are popped
PopRight(m) ==
    [ m EXCEPT
        !.datetimes = SubSeq(@, 1, Len(@) - 1),
        !.values = [ s \in Series |->
            IF s \in AllMetricsDataHistory /\ m.values[s] # <<>>
            THEN SubSeq(m.values[s], 1, Len(m.values[s]) - 1) ELSE m.values[s] ] ]

\* Faulty variant of PopLeft: only the clock is popped
PopLeftClockOnly(m) == [ m EXCEPT !.datetimes = Tail(@) ]

\* one turn of the loop of daemon_cleanup_data: the oldest clock entry and
\* the oldest value of every history-bearing series that has one
PopLeft(m) ==
    [ m EXCEPT
        !.datetimes = Tail(@),
        !.values = [ s \in Series |->
            IF s \in AllMetricsDataHistory /\ m.values[s] # <<>>
            THEN Tail(m.values[s]) ELSE m.values[s] ] ]

\* MetricManager.daemon_cleanup_data at wall-clock time t
RECURSIVE CleanupLoop(_, _)
CleanupLoop(m, t) ==
    IF m.datetimes = <<>> THEN m
    ELSE IF Strptime(m.datetimes[1]) < t - RetentionSeconds * TicksPerSecond
         THEN CleanupLoop(PopLeft(m), t)
         ELSE m

DaemonCleanupData(m, t) ==
    IF ~m.daemon_mode \/ m.datetimes = <<>> THEN m ELSE CleanupLoop(m, t)

\* MetricManager.refresh_data(worker_start_time, polling_latency, snapshot),
\* finishing at wall-clock time t.  snap gives, for every raw field, the
\* value passed in its category's dict, or None when the dict has no such
\* key; replication_status is replaced, the other stores are updated.
RefreshData(m, worker_start_time, polling_latency, snap, t) ==
    LET m0 == [ m EXCEPT
                  !.worker_start_time = Some(worker_start_time),
                  !.polling_latency = polling_latency,
                  !.raw = [ Update(m.raw, snap) EXCEPT
                              !["Seconds_Behind"] = snap["Seconds_Behind"] ] ]
        m1 == IF ~m0.replay_file
              THEN UpdateMetricsLastValue(
                     UpdatePgCacheHitRatio(
                       UpdateMetricsReplicationLag(
                         UpdateMetricsPerSecondValues(m0))))
              ELSE m0
        m2 == DaemonCleanupData(AddMetricDatetime(m1), t)
    IN  [ m2 EXCEPT !.initialized = TRUE ]

-----------------------------------------------------------------------------
(* Inputs of the live session *)

Snap(cpu, mem, xc, bh, br, cl, xn, sb) ==
    [ CPU_Percent |-> cpu, Memory_Total |-> mem, xact_commit |-> xc,
      blks_hit |-> bh, blks_read |-> br, cl_active |-> cl,
      xact_count |-> xn, Seconds_Behind |-> sb ]

\* The snapshots a poll cycle can deliver.  In the last one the database
\* and pgbouncer categories and the replication status are empty dicts.
Snapshots ==
    { Snap(Some(5), Some(8), Some(100), Some(0), Some(0), Some(3), Some(10), Some(0)),
      Snap(Some(50), Some(8), Some(150), Some(3), Some(1), Some(4), Some(25), Some(2)),
      Snap(Some(100), Some(9), Some(225), Some(9), Some(1), Some(0), Some(25), None),
      Snap(Some(0), Some(9), None, None, None, None, None, None) }

\* Time between the starts of two poll cycles, in ticks: none, five
\* seconds, and half a second more than the retention window
Gaps == { 0, 5 * TicksPerSecond, RetentionSeconds * TicksPerSecond + 1 }

-----------------------------------------------------------------------------
(* The metric store under a sequence of ingests and resets *)

\* Hastin.reset_runtime_variables and Hastin.db_connect: a fresh
\* MetricManager whose connection_source is the session's
InitMetric ==
    /\ \E d \in BOOLEAN, src \in SessionSources :
          mm = [ NewMetricManager(FALSE, d) EXCEPT !.connection_source = src ]
    /\ now = 0
    /\ prev = mm
    /\ hist = <<>>

\* One poll cycle of run_worker_main, as far as the metric store goes:
\* polling_latency is the time since the previous cycle started
Ingest ==
    /\ Len(hist) < MaxCycles
    /\ \E snap \in Snapshots, g \in Gaps :
         /\ now' = now + g
         /\ mm' = RefreshData(mm, now + g, g, snap, now + g)
         /\ hist' = Append(hist, [ op |-> "ingest", snap |-> snap, gap |-> g ])
    /\ prev' = mm
    /\ UNCHANGED nonMetricVars

\* key "R" of process_key_event
ResetMetrics ==
    /\ Len(hist) < MaxCycles
    /\ mm' = Reset(mm)
    /\ hist' = Append(hist, [ op |-> "reset", snap |-> EmptyRaw, gap |-> 0 ])
    /\ prev' = mm
    /\ UNCHANGED now
    /\ UNCHANGED nonMetricVars

NextMetric == Ingest \/ ResetMetrics

-----------------------------------------------------------------------------
(* Properties of the metric store *)

LastOp == hist[Len(hist)]

Last(q) == q[Len(q)]

IsSuffix(a, b) ==
    /\ Len(a) <= Len(b)
    /\ a = SubSeq(b, Len(b) - Len(a) + 1, Len(b))

\* r is a / n rounded to the nearest integer, a half going to the even one
IsRounded(r, a, n) ==
    \/ 2 * Abs(r * n - a) < n
    \/ 2 * Abs(r * n - a) = n /\ r % 2 = 0

\* the raw value of field f in the cycle that took snapshot snap, given the
\* raw stores before it
RawOf(before, snap, f) ==
    IF snap[f] # None THEN snap[f][1]
    ELSE IF before.raw[f] # None THEN before.raw[f][1] ELSE 0

-----------------------------------------------------------------------------
(* Replay recorder and player (Modules/ReplayManager.py) and the replay    *)
(* worker (WorkerManager.run_worker_replay).                               *)
(*                                                                         *)
(* A Python dict is a function on its keys.  A line of the recording is    *)
(* the JSON text orjson.dumps makes of a dict: the sequence of its         *)
(* <<key, value>> pairs, a dict inside it being such a sequence again.     *)

\* str.lower(), on the letters the names below use
Lower(c) ==
    CASE c = "S" -> "s" [] c = "L" -> "l" [] c = "K" -> "k"
      [] c = "E" -> "e" [] c = "Y" -> "y" [] c = "P" -> "p"
      [] OTHER -> c

LowerName(name) == [ i \in 1..Len(name) |-> Lower(name[i]) ]

\* pat in name
Contains(name, pat) ==
    \E i \in 1..(Len(name) - Len(pat) + 1) :
        SubSeq(name, i, i + Len(pat) - 1) = pat

exclude_patterns ==
    { <<"s","s","l">>, <<"p","a","s","s","w","o","r","d">>, <<"k","e","y">> }

\* names of session variables (pg_settings), letter by letter
server_version == <<"s","e","r","v","e","r","_","v","e","r","s","i","o","n">>
ssl_cert_file == <<"s","s","l","_","c","e","r","t","_","f","i","l","e">>
SSL_Cert_File == <<"S","S","L","_","c","e","r","t","_","f","i","l","e">>
password_encryption ==
    <<"p","a","s","s","w","o","r","d","_","e","n","c","r","y","p","t","i","o","n">>
krb_server_KeyFile ==
    <<"k","r","b","_","s","e","r","v","e","r","_","K","e","y","f","i","l","e">>

\* the order in which the server lists them
VarOrder ==
    << server_version, ssl_cert_file, SSL_Cert_File, password_encryption,
       krb_server_KeyFile >>

VarNames == { VarOrder[i] : i \in 1..Len(VarOrder) }

\* hastin.global_variables as a poll cycle can find it
VariableMaps ==
    { [ n \in VarNames |-> IF n = server_version THEN "16" ELSE "on" ],
      [ n \in VarNames |-> IF n = server_version THEN "16" ELSE "off" ],
      [ n \in { server_version, ssl_cert_file } |-> "17" ] }

\* Faulty variant of FilterVariables: the values kept are masked
FilterVariablesMasking(variables) ==
    [ k \in { n \in DOMAIN variables :
                ~ \E q \in exclude_patterns : Contains(LowerName(n), q) }
        |-> "***" ]

\* ReplayManager._filter_variables, matching the name as it is written
FilterVariablesCaseSensitive(variables) ==
    [ k \in { n \in DOMAIN variables :
                ~ \E q \in exclude_patterns : Contains(n, q) }
        |-> variables[k] ]

\* ReplayManager._filter_variables
FilterVariables(variables) ==
    [ k \in { n \in DOMAIN variables :
                ~ \E q \in exclude_patterns : Contains(LowerName(n), q) }
        |-> variables[k] ]

\* the groups of MetricInstances, in the order of its fields
GroupOrder ==
    << "system_cpu", "system_memory", "pg_transactions", "pg_cache_hit_ratio",
       "replication_lag", "pgbouncer_connections", "pgbouncer_traffic" >>

SeriesOfGroup(g) == { x \in Series : Registry[x].group = g }

\* ReplayManager._serialize_metrics: the clock and, group by group, the
\* values of every MetricData
SerializeMetrics(m) ==
    [ datetimes |-> m.datetimes,
      groups |-> [ g \in { GroupOrder[i] : i \in 1..Len(GroupOrder) } |->
                     [ x \in SeriesOfGroup(g) |-> m.values[x] ] ] ]

\* the dict a poll cycle holds for one category: the keys the snapshot has
SubDict(snap, fields) ==
    [ f \in { f \in fields : snap[f] # None } |-> snap[f][1] ]

FieldOrder ==
    << "CPU_Percent", "Memory_Total", "xact_commit", "blks_hit", "blks_read",
       "cl_active", "xact_count", "Seconds_Behind" >>

\* the pairs of dict d, its keys in the order given
PairsOf(d, order) ==
    LET keys == SelectSeq(order, LAMBDA k : k \in DOMAIN d)
    IN  [ i \in 1..Len(keys) |-> << keys[i], d[keys[i]] >> ]

\* the dict of a sequence of pairs
DictOf(pairs) ==
    [ k \in { pairs[i][1] : i \in DOMAIN pairs } |->
        pairs[CHOOSE i \in DOMAIN pairs :
                /\ pairs[i][1] = k
                /\ \A j \in DOMAIN pairs : pairs[j][1] = k => j <= i][2] ]

\* the dict data of capture_state
FrameData(m, snap, variables, t) ==
    [ timestamp |-> t,
      system_utilization |-> SubDict(snap, { "CPU_Percent", "Memory_Total" }),
      global_variables |-> FilterVariables(variables),
      replication_status |-> SubDict(snap, { "Seconds_Behind" }),
      database_stats |-> SubDict(snap, { "xact_commit", "blks_hit", "blks_read" }),
      metric_manager |-> SerializeMetrics(m),
      replay_polling_latency |-> 0 ]

\* orjson.dumps(data)
OrjsonDumps(data) ==
    << << "timestamp", data.timestamp >>,
       << "system_utilization", PairsOf(data.system_utilization, FieldOrder) >>,
       << "global_variables", PairsOf(data.global_variables, VarOrder) >>,
       << "replication_status", PairsOf(data.replication_status, FieldOrder) >>,
       << "database_stats", PairsOf(data.database_stats, FieldOrder) >>,
       << "metric_manager",
          << << "datetimes", data.metric_manager.datetimes >> >> \o
          [ i \in 1..Len(GroupOrder) |->
              << GroupOrder[i],
                 PairsOf(data.metric_manager.groups[GroupOrder[i]], SeriesOrder) >> ] >>,
       << "replay_polling_latency", data.replay_polling_latency >> >>

\* orjson.loads(line)
OrjsonLoads(line) ==
    LET top == DictOf(line)
        mmd == DictOf(top.metric_manager)
    IN  [ timestamp |-> top.timestamp,
          system_utilization |-> DictOf(top.system_utilization),
          global_variables |-> DictOf(top.global_variables),
          replication_status |-> DictOf(top.replication_status),
          database_stats |-> DictOf(top.database_stats),
          metric_manager |->
            [ datetimes |-> mmd.datetimes,
              groups |-> [ g \in DOMAIN mmd \ { "datetimes" } |-> DictOf(mmd[g]) ] ],
          replay_polling_latency |-> top.replay_polling_latency ]

\* Faulty variant of CaptureState: a write on the closed writer empties the log
CaptureStateLosing(f, m, snap, variables, t) ==
    IF f.closed THEN [ f EXCEPT !.lines = <<>> ]
    ELSE [ f EXCEPT !.lines = Append(@, OrjsonDumps(FrameData(m, snap, variables, t))) ]

\* ReplayManager.capture_state of a recording session: the line is written
\* unless the writer is closed, in which case the error is logged
CaptureState(f, m, snap, variables, t) ==
    IF f.closed THEN f
    ELSE [ f EXCEPT !.lines = Append(@, OrjsonDumps(FrameData(m, snap, variables, t))) ]

\* Faulty variant of LoadReplayFile: the lines are taken last to first
LoadReplayFileReversed(f) ==
    [ i \in 1..Len(f.lines) |-> OrjsonLoads(f.lines[Len(f.lines) + 1 - i]) ]

\* ReplayManager._load_replay_file
LoadReplayFile(f) == [ i \in 1..Len(f.lines) |-> OrjsonLoads(f.lines[i]) ]

\* what can be wrong with the file a replay session is started on: it is
\* not there, it is not a zstd stream, or one of its lines is not JSON
Damages == { "missing", "zstd", "line" }

\* replay_data at the moment _load_replay_file raises on file f: nothing
\* when open or read raises, the frames of the lines before the bad one
\* (line f.at) when orjson.loads raises
LoadedBeforeRaise(f) ==
    IF f.damage = "line"
    THEN LoadReplayFile([ f EXCEPT !.lines = SubSeq(@, 1, f.at - 1) ])
    ELSE <<>>

\* Faulty variant of LoadFailed: the frames loaded before the error are kept
LoadFailedKeeping(partial) == partial

\* the except clause of _load_replay_file: replay_data is emptied
LoadFailed(partial) == <<>>

\* ReplayManager._load_replay_file with its except clause
LoadReplayFileHandled(f) ==
    IF f.damage = "none" THEN LoadReplayFile(f)
    ELSE LoadFailed(LoadedBeforeRaise(f))

\* the PostgreSQLReplayData get_next_refresh_interval builds from a frame
ReplayDataOf(data) ==
    [ timestamp |-> data.timestamp,
      system_utilization |-> data.system_utilization,
      global_variables |-> data.global_variables,
      replication_status |-> data.replication_status,
      database_stats |-> data.database_stats,
      metric_manager |-> data.metric_manager ]

\* get_next_refresh_interval that starts again from the first frame when
\* the log is exhausted
GetNextRefreshIntervalWrap(rm) ==
    IF rm.current_replay_id >= Len(rm.replay_data)
    THEN [ ret |-> None, rm |-> [ rm EXCEPT !.current_replay_id = 0 ] ]
    ELSE [ ret |-> Some(ReplayDataOf(rm.replay_data[rm.current_replay_id + 1])),
           rm |-> [ rm EXCEPT !.current_replay_id = @ + 1 ] ]

\* ReplayManager.get_next_refresh_interval: what it returns and the manager
\* after the call (replay_data is indexed from 0 in the program)
GetNextRefreshInterval(rm) ==
    IF rm.current_replay_id >= Len(rm.replay_data)
    THEN [ ret |-> None, rm |-> rm ]
    ELSE [ ret |-> Some(ReplayDataOf(rm.replay_data[rm.current_replay_id + 1])),
           rm |-> [ rm EXCEPT !.current_replay_id = @ + 1 ] ]

\* ReplayManager.__init__ of a session that neither records nor replays
NewReplayManager == [ replay_data |-> <<>>, current_replay_id |-> 0 ]

\* the recording session polls every five seconds
RecordGaps == { 5 * TicksPerSecond }

\* a live session that records, and no replay session yet
InitReplay ==
    /\ file = [ lines |-> <<>>, closed |-> FALSE, damage |-> "none", at |-> 0 ]
    /\ rec = <<>>
    /\ rp = [ loaded |-> FALSE,
              rm |-> NewReplayManager,
              mm |-> NewMetricManager(TRUE, FALSE),
              system_utilization |-> <<>>,
              global_variables |-> <<>>,
              rets |-> <<>>,
              worker |-> "none" ]

\* One poll cycle of run_worker_main in a session that records: the ingest,
\* then capture_state
RecordCycle ==
    /\ ~rp.loaded
    /\ Len(rec) < MaxFrames
    /\ \E snap \in Snapshots, g \in RecordGaps, variables \in VariableMaps :
         LET m == RefreshData(mm, now + g, g, snap, now + g) IN
         /\ now' = now + g
         /\ mm' = m
         /\ hist' = Append(hist, [ op |-> "ingest", snap |-> snap, gap |-> g ])
         /\ file' = CaptureState(file, m, snap, variables, now + g)
         /\ rec' = Append(rec, [ store |-> m, snap |-> snap, variables |-> variables,
                                 t |-> now + g, written |-> ~file.closed ])
    /\ prev' = mm
    /\ UNCHANGED rp
    /\ UNCHANGED nonReplayVars

\* ReplayManager.close of the recording session
CloseRecording ==
    /\ ~rp.loaded
    /\ ~file.closed
    /\ file' = [ file EXCEPT !.closed = TRUE ]
    /\ UNCHANGED <<rec, rp, metricVars>>
    /\ UNCHANGED nonReplayVars

\* Hastin.reset_runtime_variables and ReplayManager.__init__ of a session
\* started on the recording
StartReplay ==
    /\ ~rp.loaded
    /\ file.closed
    /\ rp' = [ rp EXCEPT !.loaded = TRUE,
                         !.rm = [ replay_data |-> LoadReplayFileHandled(file),
                                  current_replay_id |-> 0 ],
                         !.mm = NewMetricManager(TRUE, FALSE) ]
    /\ UNCHANGED <<file, rec, metricVars>>
    /\ UNCHANGED nonReplayVars

\* WorkerManager.run_worker_replay.  When the tab is covered, paused or not
\* the active one it returns at once.  When the log is exhausted it cancels
\* its worker.  Otherwise it takes the next frame, copies system_utilization
\* and global_variables to the session and then calls .get() on the
\* PostgreSQLReplayData, which has no such attribute: the AttributeError is
\* caught by the handler at the end, which notifies and cancels the worker,
\* so that neither refresh_data nor the copy of the recorded clock and
\* values into the metric store is reached.
RunWorkerReplay ==
    /\ rp.loaded
    /\ Len(rp.rets) < Len(rp.rm.replay_data) + MaxExtraCalls
    /\ \E manual_control, pause_refresh, covered, active \in BOOLEAN :
         IF covered \/ (pause_refresh /\ ~manual_control) \/ ~active
         THEN rp' = [ rp EXCEPT !.worker = "success" ]
         ELSE LET r == GetNextRefreshInterval(rp.rm) IN
              IF r.ret = None
              THEN rp' = [ rp EXCEPT !.rm = r.rm,
                                     !.rets = Append(@, r.ret),
                                     !.worker = "cancelled" ]
              ELSE rp' = [ rp EXCEPT !.rm = r.rm,
                                     !.rets = Append(@, r.ret),
                                     !.system_utilization = r.ret[1].system_utilization,
                                     !.global_variables = r.ret[1].global_variables,
                                     !.worker = "cancelled" ]
    /\ UNCHANGED <<file, rec, metricVars>>
    /\ UNCHANGED nonReplayVars

NextReplay == RecordCycle \/ CloseRecording \/ StartReplay \/ RunWorkerReplay

-----------------------------------------------------------------------------
(* The ReplayManager as an object: what each method does to its attributes *)
(* and to the recording file, whatever the session around it               *)

\* ReplayManager.__init__ without replay_file: the recording is set up when
\* record_for_replay is set and replay_dir names a directory; file is the
\* recording file, None when none was created
Construct(record_for_replay, replay_dir) ==
    [ record_for_replay |-> record_for_replay,
      recording |-> record_for_replay /\ replay_dir,
      file |-> IF record_for_replay /\ replay_dir
               THEN Some([ lines |-> <<>>, closed |-> FALSE ])
               ELSE None,
      global_variable_changes |-> <<>>,
      current_replay_id |-> 0,
      replay_data |-> <<>>,
      calls |-> <<>> ]

\* ReplayManager.capture_state of manager m with the dict data: without the
\* flag it returns at once; without a writer, or with a closed one, the
\* exception of the write is logged
CaptureStateOf(m, data) ==
    IF ~m.record_for_replay THEN m
    ELSE IF ~m.recording THEN m
    ELSE IF m.file[1].closed THEN m
    ELSE [ m EXCEPT !.file = Some([ m.file[1] EXCEPT !.lines = Append(@, OrjsonDumps(data)) ]) ]

\* Faulty variant of CaptureGlobalVariableChange: the flag is not looked at
CaptureGlobalVariableChangeUnguarded(m, variable, old_value, new_value) ==
    [ m EXCEPT !.global_variable_changes =
        Append(@, [ id |-> m.current_replay_id, variable |-> variable,
                    old_value |-> old_value, new_value |-> new_value ]) ]

\* ReplayManager.capture_global_variable_change: the change is added to the
\* list kept under the current replay id
CaptureGlobalVariableChange(m, variable, old_value, new_value) ==
    IF m.record_for_replay
    THEN [ m EXCEPT !.global_variable_changes =
             Append(@, [ id |-> m.current_replay_id, variable |-> variable,
                         old_value |-> old_value, new_value |-> new_value ]) ]
    ELSE m

\* Faulty variant of Close: closing a closed recording truncates it
CloseTruncating(m) ==
    IF m.recording
    THEN [ m EXCEPT !.file = Some([ lines |-> IF m.file[1].closed THEN <<>> ELSE m.file[1].lines,
                                    closed |-> TRUE ]) ]
    ELSE m

\* ReplayManager.close: the writer and the handle are closed if the manager
\* has them; closing a closed writer or handle does nothing
Close(m) ==
    IF m.recording
    THEN [ m EXCEPT !.file = Some([ m.file[1] EXCEPT !.closed = TRUE ]) ]
    ELSE m

\* the sizes ReplayManager.get_file_size can return, in lines: 0 without a
\* recording file; with one, what the writer has flushed, which is
\* everything once it is closed
FileSizes(m) ==
    IF m.file = None THEN { 0 }
    ELSE IF m.file[1].closed THEN { Len(m.file[1].lines) }
    ELSE 0..Len(m.file[1].lines)

\* no ReplayManager is looked at by itself
IdleManager == man = Construct(FALSE, FALSE)

-----------------------------------------------------------------------------
(* Poll scheduler of one tab: the poll worker (WorkerManager.               *)
(* run_worker_main), its completion handler (on_worker_state_changed), the *)
(* timers it sets, the keys that touch them and TabManager.disconnect_tab. *)
(*                                                                         *)
(* The handlers run one at a time on the event loop; a worker is a thread  *)
(* that runs beside them.  A worker that returns while it is RUNNING       *)
(* becomes SUCCESS and a StateChanged message is queued; cancel() makes a  *)
(* RUNNING worker CANCELLED and queues the message at once, its thread     *)
(* going on to the end; cancel() of a worker that is over does nothing.    *)

\* the snapshot and the session variables the server answers with
PollSnap == Snap(Some(50), Some(8), Some(150), Some(3), Some(1), Some(4), Some(25), Some(2))
PollVariables == [ n \in { server_version, ssl_cert_file } |-> "17" ]

\* setup_host_tab has made the tab and started its first poll worker
InitSched ==
    /\ sch = [ pause_refresh |-> FALSE,
               connected |-> FALSE,
               worker |-> 0,
               worker_timer |-> 0,
               worker_cancel_error |-> FALSE,
               worker_previous_start_time |-> 0,
               polling_latency |-> 0,
               prompted |-> FALSE,
               disconnected |-> FALSE,
               last |-> "other" ]
    /\ workers = << [ state |-> "running", pc |-> "begin", start |-> 0 ] >>
    /\ timers = <<>>
    /\ events = <<>>

\* a connected tab between two poll cycles
PollingSched ==
    /\ sch = [ pause_refresh |-> FALSE,
               connected |-> TRUE,
               worker |-> 1,
               worker_timer |-> 1,
               worker_cancel_error |-> FALSE,
               worker_previous_start_time |-> 0,
               polling_latency |-> 0,
               prompted |-> FALSE,
               disconnected |-> FALSE,
               last |-> "scheduled_rendered" ]
    /\ workers = << [ state |-> "success", pc |-> "done", start |-> 0 ] >>
    /\ timers = << "pending" >>
    /\ events = <<>>

\* the metric groups a Graph widget is made for; system_memory plots
\* Memory_Used, a series this model does not hold
GraphGroups == { Registry[s].group : s \in Series } \ { "system_memory" }

\* MetricData.visible
Visible(s) == s # "Memory_Total"

\* Graph.__init__: no metric_instance, no datetimes, nothing plotted
InitGraph ==
    graph = [ g \in GraphGroups |-> [ metric_instance |-> FALSE, plot |-> None ] ]

\* Graph.render_graph(metric_instance, datetimes) on the group g of store m:
\* x = list(datetimes), nothing is drawn when x is empty; then for every
\* visible series of the group y = list(values), plotted against x when y
\* is not empty
RenderGraph(g, m) ==
    LET x == m.datetimes
        drawn == { s \in Series : /\ Registry[s].group = g
                                  /\ Visible(s)
                                  /\ m.values[s] # <<>> }
    IN  [ metric_instance |-> TRUE,
          plot |-> IF x = <<>> THEN None
                   ELSE Some([ x |-> x, y |-> [ s \in drawn |-> m.values[s] ] ]) ]

\* App.update_graphs: render_graph of the Graph widgets, each with its
\* group of the metric manager and the manager's datetimes
UpdateGraphs(m) == [ g \in GraphGroups |-> RenderGraph(g, m) ]

\* App.run_worker_main: a new worker of group "main" runs
\* WorkerManager.run_worker_main
RunWorkerMain(ws) == Append(ws, [ state |-> "running", pc |-> "begin", start |-> 0 ])

\* Worker.cancel
Cancel(ws, w) ==
    IF w # 0 /\ ws[w].state = "running" THEN [ ws EXCEPT ![w].state = "cancelled" ] ELSE ws

CancelEvents(ws, w, es) ==
    IF w # 0 /\ ws[w].state = "running"
    THEN Append(es, [ worker |-> w, state |-> "cancelled" ])
    ELSE es

\* a stop that leaves the timer running
StopNothing(ts, i) == ts

\* Timer.stop
Stop(ts, i) ==
    IF i # 0 /\ ts[i] = "pending" THEN [ ts EXCEPT ![i] = "stopped" ] ELSE ts

\* the thread of worker w returns
Return(ws, w) ==
    [ ws EXCEPT ![w].pc = "done",
                ![w].start = 0,
                ![w].state = IF @ = "running" THEN "success" ELSE @ ]

ReturnEvents(ws, w, es) ==
    IF ws[w].state = "running"
    THEN Append(es, [ worker |-> w, state |-> "success" ])
    ELSE es

\* the thread of worker w ends with an exception run_worker_main does
\* not catch
Raise(ws, w) ==
    [ ws EXCEPT ![w].pc = "done",
                ![w].start = 0,
                ![w].state = IF @ = "running" THEN "error" ELSE @ ]

RaiseEvents(ws, w, es) ==
    IF ws[w].state = "running"
    THEN Append(es, [ worker |-> w, state |-> "error" ])
    ELSE es

\* TabManager.disconnect_tab, on the session record
DisconnectTab(s) ==
    [ s EXCEPT !.connected = FALSE, !.disconnected = TRUE ]

\* run_worker_main, except ManualException: worker_cancel_error is set and
\* disconnect_tab runs on the event loop while the thread waits; then the
\* thread returns
WorkerFail(w) ==
    LET ws == Cancel(workers, sch.worker)
        es == CancelEvents(workers, sch.worker, events)
    IN  /\ sch' = [ DisconnectTab(sch) EXCEPT !.worker_cancel_error = TRUE,
                                             !.last = "other" ]
        /\ timers' = Stop(timers, sch.worker_timer)
        /\ workers' = Return(ws, w)
        /\ events' = ReturnEvents(ws, w, es)

\* run_worker_main up to the start of the poll: tab.worker is this worker;
\* a session that is not connected connects, which may fail; the polling
\* latency is the time since the previous cycle started
WorkerBegin(w) ==
    /\ workers[w].pc = "begin"
    /\ \E g \in RecordGaps :
         /\ now' = now + g
         /\ \/ /\ sch' = [ sch EXCEPT !.worker = w,
                                      !.connected = TRUE,
                                      !.polling_latency = now + g - sch.worker_previous_start_time,
                                      !.worker_previous_start_time = now + g,
                                      !.last = "other" ]
               /\ workers' = [ workers EXCEPT ![w].pc = "poll", ![w].start = now + g ]
               /\ UNCHANGED <<timers, events>>
            \/ /\ ~sch.connected
               /\ LET s == [ sch EXCEPT !.worker = w ]
                      ws == Cancel(workers, w)
                      es == CancelEvents(workers, w, events)
                  IN  /\ sch' = [ DisconnectTab(s) EXCEPT !.worker_cancel_error = TRUE,
                                                         !.last = "other" ]
                      /\ timers' = Stop(timers, s.worker_timer)
                      /\ workers' = Return(ws, w)
                      /\ events' = ReturnEvents(ws, w, es)
    /\ UNCHANGED <<mm, prev, hist, file, rec, rp>>
    /\ UNCHANGED <<dbVars, kem, graph, man>>

\* run_worker_main: the data is collected and refresh_data ingests it, or a
\* query ends in ManualException
WorkerIngest(w) ==
    /\ workers[w].pc = "poll"
    /\ \/ /\ mm' = RefreshData(mm, workers[w].start, sch.polling_latency, PollSnap, now)
          /\ prev' = mm
          /\ workers' = [ workers EXCEPT ![w].pc = "capture" ]
          /\ sch' = [ sch EXCEPT !.last = "other" ]
          /\ UNCHANGED <<timers, events>>
       \/ /\ WorkerFail(w)
          /\ UNCHANGED <<mm, prev>>
    /\ UNCHANGED <<now, hist, file, rec, rp>>
    /\ UNCHANGED <<dbVars, kem, graph, man>>

\* run_worker_main: capture_state, and the thread returns
WorkerCapture(w) ==
    /\ workers[w].pc = "capture"
    /\ file' = CaptureState(file, mm, PollSnap, PollVariables, now)
    /\ workers' = Return(workers, w)
    /\ events' = ReturnEvents(workers, w, events)
    /\ sch' = [ sch EXCEPT !.last = "other" ]
    /\ UNCHANGED <<timers, metricVars, rec, rp>>
    /\ UNCHANGED <<dbVars, kem, graph, man>>

\* process_key_event goes on to the key's command when the secondary
\* connection runs no query and the main connection is connected
KeyAccepted == ~db.is_running_query /\ sch.connected

\* a timer set by on_worker_state_changed goes off: run_worker_main
TimerFireWithin(i, n) ==
    /\ timers[i] = "pending"
    /\ Len(workers) < n
    /\ timers' = [ timers EXCEPT ![i] = "fired" ]
    /\ workers' = RunWorkerMain(workers)
    /\ sch' = [ sch EXCEPT !.last = "tick" ]
    /\ UNCHANGED <<events, metricVars, replayVars>>
    /\ UNCHANGED <<dbVars, kem, graph, man>>

TimerFire(i) == TimerFireWithin(i, MaxWorkers)

\* on_worker_state_changed, group "main", SUCCESS, of a session that stops
\* scheduling while it is paused
OnMainSuccessSuspended(s, ts, covered) ==
    IF s.pause_refresh
    THEN [ sch |-> [ s EXCEPT !.last = "other" ], timers |-> ts ]
    ELSE [ sch |-> [ s EXCEPT !.worker_timer = Len(ts) + 1,
                              !.last = IF covered \/ ~s.connected \/ mm.daemon_mode
                                       THEN "scheduled_hidden"
                                       ELSE "scheduled_rendered" ],
           timers |-> Append(ts, "pending") ]

\* on_worker_state_changed, group "main", SUCCESS: the next tick is set in
\* every case; the screen is refreshed unless it is covered (another
\* screen is on top, or the tab is not the active one) or the session is
\* paused, disconnected or a daemon
OnMainSuccess(s, ts, covered) ==
    [ sch |-> [ s EXCEPT !.worker_timer = Len(ts) + 1,
                         !.last = IF \/ covered
                                     \/ s.pause_refresh
                                     \/ ~s.connected
                                     \/ mm.daemon_mode
                                  THEN "scheduled_hidden"
                                  ELSE "scheduled_rendered" ],
      timers |-> Append(ts, "pending") ]

\* on_worker_state_changed for the oldest queued message of the tab
HandleStateChanged ==
    /\ events # <<>>
    /\ events' = Tail(events)
    /\ IF Head(events).state = "success"
       THEN \E covered \in BOOLEAN :
              LET r == OnMainSuccess(sch, timers, covered) IN
              /\ sch' = r.sch
              /\ timers' = r.timers
              /\ graph' = IF r.sch.last = "scheduled_rendered"
                           THEN UpdateGraphs(mm) ELSE graph
       ELSE IF Head(events).state = "cancelled"
       THEN /\ sch' = [ sch EXCEPT !.prompted = @ \/ sch.worker_cancel_error,
                                   !.last = "other" ]
            /\ UNCHANGED <<timers, graph>>
       ELSE /\ sch' = [ sch EXCEPT !.last = "other" ]
            /\ UNCHANGED <<timers, graph>>
    /\ UNCHANGED <<workers, metricVars, replayVars>>
    /\ UNCHANGED <<dbVars, kem, man>>

\* key "space": when the tab's worker is not running, the tab's timer is
\* stopped and a worker started
KeySpace ==
    /\ KeyAccepted
    /\ IF sch.worker = 0 THEN TRUE ELSE workers[sch.worker].state # "running"
    /\ Len(workers) < MaxWorkers
    /\ timers' = Stop(timers, sch.worker_timer)
    /\ workers' = RunWorkerMain(workers)
    /\ sch' = [ sch EXCEPT !.disconnected = FALSE, !.last = "other" ]
    /\ UNCHANGED <<events, metricVars, replayVars>>
    /\ UNCHANGED <<dbVars, kem, graph, man>>

\* key "p" of a live session
KeyPause ==
    /\ KeyAccepted
    /\ sch' = [ sch EXCEPT !.pause_refresh = ~@, !.last = "other" ]
    /\ UNCHANGED <<workers, timers, events, metricVars, replayVars>>
    /\ UNCHANGED <<dbVars, kem, graph, man>>

\* key "D": disconnect_tab
KeyDisconnect ==
    /\ KeyAccepted
    /\ sch' = [ DisconnectTab(sch) EXCEPT !.last = "other" ]
    /\ workers' = Cancel(workers, sch.worker)
    /\ events' = CancelEvents(workers, sch.worker, events)
    /\ timers' = Stop(timers, sch.worker_timer)
    /\ UNCHANGED <<metricVars, replayVars>>
    /\ UNCHANGED <<dbVars, kem, graph, man>>

NextSched ==
    \/ \E w \in DOMAIN workers : WorkerBegin(w) \/ WorkerIngest(w) \/ WorkerCapture(w)
    \/ \E i \in DOMAIN timers : TimerFire(i)
    \/ HandleStateChanged
    \/ KeySpace
    \/ KeyPause
    \/ KeyDisconnect

-----------------------------------------------------------------------------
(* Properties of the scheduler *)

Running == { w \in DOMAIN workers : workers[w].pc # "done" }

Pending == { i \in DOMAIN timers : timers[i] = "pending" }

\* C3: at any time the tab has at most one poll cycle in progress and at
\* most one pending poll timer, so that a cycle never starts before the
\* ingest and the record of the one before it are over.
C3_OneCycleOneTimer ==
    /\ Cardinality(Running) <= 1
    /\ Cardinality(Pending) <= 1

\* C4 as claimed: while the session is paused no timer goes off and no
\* tick is scheduled.
C4_PausedNoTick ==
    sch.pause_refresh => sch.last \notin { "tick", "scheduled_hidden", "scheduled_rendered" }

\* C4: while the session is paused the poll goes on; the completion
\* handler of a cycle sets the next tick and leaves the screen as it is.
\* The pause key itself changes neither the metric store, the recording,
\* the workers, the timers nor the queued messages.
C4_PauseSkipsRenderOnly ==
    [][ /\ (sch'.pause_refresh # sch.pause_refresh) =>
              /\ mm' = mm
              /\ file' = file
              /\ workers' = workers
              /\ timers' = timers
              /\ events' = events
        /\ ( /\ sch.pause_refresh
             /\ events # <<>>
             /\ Head(events).state = "success"
             /\ events' = Tail(events) ) =>
              /\ Len(timers') = Len(timers) + 1
              /\ timers'[Len(timers')] = "pending"
              /\ sch'.worker_timer = Len(timers')
              /\ sch'.last = "scheduled_hidden"
              /\ mm' = mm
      ]_vars

\* a cycle was ingested and its completion handled while paused
C4_Witness ==
    /\ sch.pause_refresh
    /\ sch.last = "scheduled_hidden"
    /\ sch.connected
    /\ Pending # {}
    /\ Len(mm.datetimes) >= 1
    /\ Len(file.lines) >= 1

\* C5: once disconnect_tab has run, and until the user starts the poll by
\* hand, the tab has no pending timer and no tick is set or goes off.
C5_CancelTerminal ==
    sch.disconnected =>
        /\ Pending = {}
        /\ sch.last \notin { "tick", "scheduled_hidden", "scheduled_rendered" }

-----------------------------------------------------------------------------
(* Properties of recording and replay *)

\* what the recording session was and took in at each frame it wrote
Written == SelectSeq(rec, LAMBDA r : r.written)

IsSensitive(name) ==
    \E i \in 1..Len(name), j \in 1..Len(name) :
        LowerName(SubSeq(name, i, j)) \in
            { <<"s","s","l">>, <<"p","a","s","s","w","o","r","d">>, <<"k","e","y">> }

\* the same names, and the same values but for the sensitive names
DifferOnlyInSensitive(v, w) ==
    /\ DOMAIN v = DOMAIN w
    /\ \A n \in DOMAIN v : ~IsSensitive(n) => v[n] = w[n]

\* C8: no line written by capture_state and no frame loaded from the log
\* holds a session variable with a sensitive name, and the line written
\* is the same for inputs that differ only in the values of such variables.
C8_NoSensitiveVariable ==
    /\ \A i \in 1..Len(file.lines) :
         \A n \in DOMAIN OrjsonLoads(file.lines[i]).global_variables : ~IsSensitive(n)
    /\ \A i \in 1..Len(rp.rm.replay_data) :
         \A n \in DOMAIN rp.rm.replay_data[i].global_variables : ~IsSensitive(n)
    /\ \A i \in 1..Len(rp.rets) :
         rp.rets[i] # None =>
             \A n \in DOMAIN rp.rets[i][1].global_variables : ~IsSensitive(n)
    /\ \A i \in 1..Len(Written) :
         \A w \in VariableMaps :
             DifferOnlyInSensitive(Written[i].variables, w) =>
                 file.lines[i] = OrjsonDumps(FrameData(Written[i].store, Written[i].snap,
                                                       w, Written[i].t))

\* a frame recorded with sensitive names in both cases, loaded and played
C8_Witness ==
    /\ rp.loaded
    /\ Len(rp.rets) >= 1
    /\ rp.rets[1] # None
    /\ { SSL_Cert_File, krb_server_KeyFile, password_encryption }
           \subseteq DOMAIN Written[1].variables
    /\ DOMAIN rp.rets[1][1].global_variables = { server_version }
    /\ \E w \in VariableMaps :
         /\ w # Written[1].variables
         /\ DifferOnlyInSensitive(Written[1].variables, w)

-----------------------------------------------------------------------------
(* Database (Modules/PostgreSQL.py): execute, fetchall and the threads     *)
(* that call them on one connection.  Every read or write of an attribute  *)
(* of the shared Database object is a step of its own.                     *)

Threads == {1, 2}

Queries == {"qa", "qb"}

\* max_reconnect_attempts of an interactive session
MaxReconnectAttempts == 3

\* the rows the server returns to the command of thread t
RowsOf(t) == << t >>

\* a thread that runs no command.  known, sent and reconnects are history
\* of the call of execute the thread makes: whether the query was in
\* privilege_errors_notified when the call began, whether the call passed
\* the query to the server, and how often it called connect to reconnect
\* (counted up to one more than max_reconnect_attempts)
CountUp(n) == IF n > MaxReconnectAttempts THEN n ELSE n + 1

\* reconnects the server refuses in a session
MaxRefusals == 3

\* max_reconnect_attempts of a daemon
DaemonReconnectAttempts == 999999999

\* Faulty variant of Backoff: the wait is not capped
BackoffUncapped(attempt_number) == 2 ^ attempt_number

\* execute, after a reconnect that failed: the seconds of
\* time.sleep(min(1 * (2**attempt_number), 20))
Backoff(attempt_number) ==
    IF 1 * (2 ^ attempt_number) < 20 THEN 1 * (2 ^ attempt_number) ELSE 20

IdleThread ==
    [ pc |-> "idle", query |-> "qa", attempt |-> 0, err |-> "none",
      ok |-> FALSE, rejected |-> FALSE, fetched |-> FALSE, result |-> <<>>,
      known |-> FALSE, sent |-> FALSE, reconnects |-> 0, slept |-> <<>> ]

\* Database.__init__ followed by connect(), as Hastin.db_connect does, on a
\* server that will answer n times with an error.  notes counts, query by
\* query, the "Insufficient Privileges" notifications shown to the user.
InitDatabase(n, r, a) ==
    /\ db = [ connected |-> TRUE, is_running_query |-> FALSE,
              last_execute_successful |-> FALSE, cursor |-> 0,
              max_reconnect_attempts |-> a,
              privilege_errors_notified |-> {},
              notes |-> [ q \in Queries |-> 0 ] ]
    /\ cursors = <<>>
    /\ th = [ t \in Threads |-> IdleThread ]
    /\ faults = [ errors |-> n, refusals |-> r ]
    /\ started = 0

\* the connection of an interactive session
InitDbFaults(n) == InitDatabase(n, MaxRefusals, MaxReconnectAttempts)

InitDb == InitDbFaults(MaxFaults)

Goto(t, pc) == th' = [ th EXCEPT ![t].pc = pc ]

\* process_key_event lets a command through when the secondary connection
\* is not running a query, and execute_command_in_thread starts its thread
StartCommand(t) ==
    /\ th[t].pc \in {"idle", "done", "raised"}
    /\ started < MaxCommands
    /\ ~db.is_running_query
    /\ sch.connected
    /\ \E q \in Queries : th' = [ th EXCEPT ![t] = [ IdleThread EXCEPT
                                        !.pc = "e_connected", !.query = q,
                                        !.known = q \in db.privilege_errors_notified ] ]
    /\ started' = started + 1
    /\ UNCHANGED <<db, cursors, faults>>
    /\ UNCHANGED nonDbVars

\* execute: if not self.is_connected()
ExecCheckConnected(t) ==
    /\ th[t].pc = "e_connected"
    /\ IF db.connected
       THEN Goto(t, "e_flag") /\ UNCHANGED db
       ELSE /\ db' = [ db EXCEPT !.last_execute_successful = FALSE ]
            /\ Goto(t, "f_check")
    /\ UNCHANGED <<cursors, faults, started>>
    /\ UNCHANGED nonDbVars

\* execute: if self.is_running_query
ExecCheckFlag(t) ==
    /\ th[t].pc = "e_flag"
    /\ Goto(t, IF db.is_running_query THEN "e_reject" ELSE "e_priv")
    /\ UNCHANGED <<db, cursors, faults, started>>
    /\ UNCHANGED nonDbVars

\* execute, rejected: notify, last_execute_successful = False, return None
ExecReject(t) ==
    /\ th[t].pc = "e_reject"
    /\ db' = [ db EXCEPT !.last_execute_successful = FALSE ]
    /\ th' = [ th EXCEPT ![t].pc = "f_check", ![t].rejected = TRUE ]
    /\ UNCHANGED <<cursors, faults, started>>
    /\ UNCHANGED nonDbVars

\* execute that does not look the query up in privilege_errors_notified
ExecCheckPrivilegeNoCache(t) ==
    /\ th[t].pc = "e_priv"
    /\ th' = [ th EXCEPT ![t].pc = "e_set", ![t].attempt = 0 ]
    /\ UNCHANGED <<db, cursors, faults, started>>
    /\ UNCHANGED nonDbVars

\* execute: if raw_query in self.privilege_errors_notified
ExecCheckPrivilege(t) ==
    /\ th[t].pc = "e_priv"
    /\ IF th[t].query \in db.privilege_errors_notified
       THEN /\ db' = [ db EXCEPT !.last_execute_successful = FALSE ]
            /\ Goto(t, "f_check")
       ELSE /\ th' = [ th EXCEPT ![t].pc = "e_set", ![t].attempt = 0 ]
            /\ UNCHANGED db
    /\ UNCHANGED <<cursors, faults, started>>
    /\ UNCHANGED nonDbVars

\* execute whose loop, when the attempts are used up, returns None whether
\* the connection is open or not
ExecSetFlagNoRaise(t) ==
    /\ th[t].pc = "e_set"
    /\ IF th[t].attempt < db.max_reconnect_attempts
       THEN /\ db' = [ db EXCEPT !.is_running_query = TRUE ]
            /\ Goto(t, "e_cursor")
       ELSE /\ Goto(t, "f_check")
            /\ UNCHANGED db
    /\ UNCHANGED <<cursors, faults, started>>
    /\ UNCHANGED nonDbVars

\* execute, top of the attempt loop: self.is_running_query = True; when
\* the attempts are used up the loop ends and, the connection being
\* closed, ManualException is raised
ExecSetFlag(t) ==
    /\ th[t].pc = "e_set"
    /\ IF th[t].attempt < db.max_reconnect_attempts
       THEN /\ db' = [ db EXCEPT !.is_running_query = TRUE ]
            /\ Goto(t, "e_cursor")
       ELSE /\ Goto(t, IF db.connected THEN "f_check" ELSE "raised")
            /\ UNCHANGED db
    /\ UNCHANGED <<cursors, faults, started>>
    /\ UNCHANGED nonDbVars

\* execute: self.cursor = self.connection.cursor(); a closed connection
\* raises psycopg.OperationalError
ExecCursor(t) ==
    /\ th[t].pc = "e_cursor"
    /\ IF db.connected
       THEN /\ cursors' = Append(cursors, <<>>)
            /\ db' = [ db EXCEPT !.cursor = Len(cursors) + 1 ]
            /\ Goto(t, "e_run")
       ELSE /\ th' = [ th EXCEPT ![t].pc = "x_clear", ![t].err = "operational" ]
            /\ UNCHANGED <<db, cursors>>
    /\ UNCHANGED <<faults, started>>
    /\ UNCHANGED nonDbVars

\* execute: self.cursor.execute(prefixed_query): the cursor self.cursor
\* names now receives the rows, or the server answers with an error; on a
\* connection that was closed in the meantime psycopg.OperationalError is
\* raised
ExecRun(t) ==
    /\ th[t].pc = "e_run"
    /\ \/ /\ db.connected
          /\ cursors' = [ cursors EXCEPT ![db.cursor] = RowsOf(t) ]
          /\ th' = [ th EXCEPT ![t].pc = "e_clear", ![t].sent = TRUE ]
          /\ UNCHANGED faults
       \/ /\ ~db.connected
          /\ th' = [ th EXCEPT ![t].pc = "x_clear", ![t].err = "operational" ]
          /\ UNCHANGED <<cursors, faults>>
       \/ /\ faults.errors > 0
          /\ \E e \in {"privilege", "operational", "other"} :
                th' = [ th EXCEPT ![t].pc = "x_clear", ![t].err = e,
                                  ![t].sent = TRUE ]
          /\ faults' = [ faults EXCEPT !.errors = @ - 1 ]
          /\ UNCHANGED cursors
    /\ UNCHANGED <<db, started>>
    /\ UNCHANGED nonDbVars

\* execute, after the query: self.is_running_query = False
ExecClearFlag(t) ==
    /\ th[t].pc = "e_clear"
    /\ db' = [ db EXCEPT !.is_running_query = FALSE ]
    /\ Goto(t, "e_les")
    /\ UNCHANGED <<cursors, faults, started>>
    /\ UNCHANGED nonDbVars

\* execute: self.last_execute_successful = True; return self.cursor.rowcount
ExecSetSuccessful(t) ==
    /\ th[t].pc = "e_les"
    /\ db' = [ db EXCEPT !.last_execute_successful = TRUE ]
    /\ th' = [ th EXCEPT ![t].pc = "f_check", ![t].ok = TRUE ]
    /\ UNCHANGED <<cursors, faults, started>>
    /\ UNCHANGED nonDbVars

\* Faulty variant of ErrClearFlag: the except clause leaves the flag set
ErrKeepFlag(t) ==
    /\ th[t].pc = "x_clear"
    /\ Goto(t, "x_les")
    /\ UNCHANGED <<db, cursors, faults, started>>
    /\ UNCHANGED nonDbVars

\* execute, except psycopg.Error: self.is_running_query = False
ErrClearFlag(t) ==
    /\ th[t].pc = "x_clear"
    /\ db' = [ db EXCEPT !.is_running_query = FALSE ]
    /\ Goto(t, "x_les")
    /\ UNCHANGED <<cursors, faults, started>>
    /\ UNCHANGED nonDbVars

\* execute, except psycopg.Error: self.last_execute_successful = False
ErrClearSuccessful(t) ==
    /\ th[t].pc = "x_les"
    /\ db' = [ db EXCEPT !.last_execute_successful = FALSE ]
    /\ Goto(t, "x_handle")
    /\ UNCHANGED <<cursors, faults, started>>
    /\ UNCHANGED nonDbVars

\* execute, except psycopg.Error: a privilege error is remembered and None
\* returned; an OperationalError closes and reconnects, then either sleeps
\* and goes round the loop or calls execute again; any other error raises
\* ManualException.  slept holds the waits of the failed reconnects since
\* the last one that succeeded
ErrHandle(t) ==
    /\ th[t].pc = "x_handle"
    /\ \/ /\ th[t].err = "privilege"
          /\ db' = IF th[t].query \notin db.privilege_errors_notified
                   THEN [ db EXCEPT !.privilege_errors_notified = @ \cup {th[t].query},
                                    !.notes[th[t].query] = @ + 1 ]
                   ELSE db
          /\ Goto(t, "f_check")
          /\ UNCHANGED faults
       \/ /\ th[t].err = "other"
          /\ Goto(t, "raised")
          /\ UNCHANGED <<db, faults>>
       \/ /\ th[t].err = "operational"
          /\ \/ /\ faults.refusals > 0
                /\ faults' = [ faults EXCEPT !.refusals = @ - 1 ]
                /\ db' = [ db EXCEPT !.connected = FALSE ]
                /\ th' = [ th EXCEPT ![t].pc = "e_set", ![t].attempt = @ + 1,
                                     ![t].slept = Append(@, Backoff(th[t].attempt)),
                                     ![t].reconnects = CountUp(@) ]
             \/ /\ db' = [ db EXCEPT !.connected = TRUE ]
                /\ th' = [ th EXCEPT ![t].pc = "e_connected",
                                     ![t].slept = <<>>,
                                     ![t].reconnects = CountUp(@) ]
                /\ UNCHANGED faults
    /\ UNCHANGED <<cursors, started>>
    /\ UNCHANGED nonDbVars

\* fetchall: if not self.is_connected() or not self.last_execute_successful
FetchCheck(t) ==
    /\ th[t].pc = "f_check"
    /\ IF ~db.connected \/ ~db.last_execute_successful
       THEN th' = [ th EXCEPT ![t].pc = "done", ![t].fetched = TRUE,
                              ![t].result = <<>> ]
       ELSE Goto(t, "f_rows")
    /\ UNCHANGED <<db, cursors, faults, started>>
    /\ UNCHANGED nonDbVars

\* fetchall: rows = self.cursor.fetchall(), which empties the cursor
FetchRows(t) ==
    /\ th[t].pc = "f_rows"
    /\ th' = [ th EXCEPT ![t].pc = "done", ![t].fetched = TRUE,
                         ![t].result = cursors[db.cursor] ]
    /\ cursors' = [ cursors EXCEPT ![db.cursor] = <<>> ]
    /\ UNCHANGED <<db, faults, started>>
    /\ UNCHANGED nonDbVars

NextDb ==
    \E t \in Threads :
        \/ StartCommand(t)
        \/ ExecCheckConnected(t)
        \/ ExecCheckFlag(t)
        \/ ExecReject(t)
        \/ ExecCheckPrivilege(t)
        \/ ExecSetFlag(t)
        \/ ExecCursor(t)
        \/ ExecRun(t)
        \/ ExecClearFlag(t)
        \/ ExecSetSuccessful(t)
        \/ ErrClearFlag(t)
        \/ ErrClearSuccessful(t)
        \/ ErrHandle(t)
        \/ FetchCheck(t)
        \/ FetchRows(t)

\* the keys pressed: a fast command, the poll-now key, a replay step key
Keys == { "p", "space", "right_square_bracket" }

\* KeyEventManager.__init__: no key has a last time; clock in milliseconds
InitKeys ==
    kem = [ clock |-> 0,
            last_key_time |-> [ k \in Keys |-> None ],
            presses |-> <<>> ]

\* the metric store of a session that has not polled yet
IdleMetric ==
    /\ mm = NewMetricManager(FALSE, FALSE)
    /\ now = 0
    /\ prev = mm
    /\ hist = <<>>

\* a session that polls, its commands idle
InitMetricSession == InitMetric /\ InitDb /\ InitReplay /\ InitSched /\ InitKeys /\ InitGraph /\ IdleManager

SpecMetric == InitMetricSession /\ [][NextMetric]_vars

\* a session that runs commands, its poll cycle idle
InitDbSession == InitDb /\ IdleMetric /\ InitReplay /\ PollingSched /\ InitKeys /\ InitGraph /\ IdleManager

SpecDb == InitDbSession /\ [][NextDb]_vars

\* a session that records and is then replayed
InitReplaySession == IdleMetric /\ InitDb /\ InitReplay /\ InitSched /\ InitKeys /\ InitGraph /\ IdleManager

SpecReplay == InitReplaySession /\ [][NextReplay]_vars

\* a tab whose poll worker has just been started
InitSchedSession == InitSched /\ IdleMetric /\ InitDb /\ InitReplay /\ InitKeys /\ InitGraph /\ IdleManager

SpecSched == InitSchedSession /\ [][NextSched]_vars

-----------------------------------------------------------------------------
(* Properties of the connection *)

\* thread t has passed the check of is_running_query and is running its
\* query on the connection
InFlight(t) == th[t].pc \in {"e_cursor", "e_run", "e_clear"}

\* C2: at most one execute() is in flight on the connection at any instant:
\* two callers never both pass the check of is_running_query and both run
\* a query.
C2_SingleFlight ==
    \A t, u \in Threads : (InFlight(t) /\ InFlight(u)) => t = u

\* C9: when an execute() was rejected because another one was in flight,
\* the fetchall() that follows the successful execute() returns exactly
\* the rows of its own query.
C9_FirstResultUnaffected ==
    \A t, u \in Threads :
        ( /\ t # u
          /\ th[u].rejected
          /\ th[t].ok
          /\ th[t].fetched ) => th[t].result = RowsOf(t)


-----------------------------------------------------------------------------
(* The smoothing of CPU_Percent: a live session polled every second, whose *)
(* gauges and counters all read the same value in a cycle.                 *)

MaxCpuCycles == 5

\* what a cycle can read: a value, or nothing (the key is not in the dicts)
CpuValues == { 0, 40, 42, 45, 100 }

CpuReadings == { Some(c) : c \in CpuValues } \cup { None }

CpuSnap(r) == Snap(r, r, r, Some(3), Some(1), r, r, r)

\* Hastin.reset_runtime_variables and Hastin.db_connect of a live session
InitCpu ==
    /\ \E src \in SessionSources :
          mm = [ NewMetricManager(FALSE, FALSE) EXCEPT !.connection_source = src ]
    /\ now = 0
    /\ prev = mm
    /\ hist = <<>>

\* One poll cycle of run_worker_main, one second after the one before
CpuIngest ==
    /\ Len(hist) < MaxCpuCycles
    /\ \E r \in CpuReadings :
         /\ mm' = RefreshData(mm, now + TicksPerSecond, TicksPerSecond, CpuSnap(r),
                              now + TicksPerSecond)
         /\ hist' = Append(hist, [ op |-> "ingest", snap |-> CpuSnap(r),
                                   gap |-> TicksPerSecond ])
    /\ now' = now + TicksPerSecond
    /\ prev' = mm
    /\ UNCHANGED nonMetricVars

NextCpu == CpuIngest \/ ResetMetrics

InitCpuSession == InitCpu /\ InitDb /\ InitReplay /\ InitSched /\ InitKeys /\ InitGraph /\ IdleManager

SpecCpu == InitCpuSession /\ [][NextCpu]_vars

\* the CPU_Percent samples stored before and after the last operation
CpuBefore == prev.values["CPU_Percent"]
CpuAfter == mm.values["CPU_Percent"]

\* the last operation was an ingest that had a CPU_Percent value to store
CpuStored ==
    /\ hist # <<>>
    /\ LastOp.op = "ingest"
    /\ prev.last_value["CPU_Percent"] # None

\* the value read for CPU_Percent by the last ingest
CpuRead == RawOf(prev, LastOp.snap, "CPU_Percent")

\* the mean of the last three (or fewer) samples of q, cut to an integer
MeanOfRecent(q) ==
    LET k == IF Len(q) < 3 THEN Len(q) ELSE 3
        total == SumSeq([ i \in 1..k |-> q[Len(q) - k + i] ])
    IN  total \div k

\* C11: when two consecutive cycles read the same boundary value (0 or 100)
\* and the first of them was smoothed, the second is stored as it is, so
\* that a sustained boundary value reaches the stored series.
C11_SustainedBoundaryStored ==
    ( /\ Len(hist) >= 2
      /\ CpuStored
      /\ hist[Len(hist) - 1].op = "ingest"
      /\ hist[Len(hist) - 1].snap["CPU_Percent"] = LastOp.snap["CPU_Percent"]
      /\ LastOp.snap["CPU_Percent"] \in { Some(0), Some(100) }
      /\ CpuBefore # <<>>
      /\ Last(CpuBefore) # CpuRead )
    => Last(CpuAfter) = CpuRead

\* the series other than CPU_Percent store what the ingest derives, boundary
\* value or not: the gauges the value read, the counters its rate, the lag
\* the seconds the replication status holds
OthersUnsmoothed ==
    (hist # <<>> /\ LastOp.op = "ingest") =>
        /\ prev.initialized =>
              mm.values["lag"] = Append(prev.values["lag"],
                                        Get(LastOp.snap, "Seconds_Behind"))
        /\ \A s \in SourceToMetricsProcessing \ { "CPU_Percent" } :
              (Applicable(mm, s) /\ prev.last_value[s] # None) =>
                  /\ mm.values[s] # <<>>
                  /\ Registry[s].save_history =>
                        Len(mm.values[s]) = Len(prev.values[s]) + 1
                  /\ IF Registry[s].per_second
                     THEN IsRounded(Last(mm.values[s]),
                                    (RawOf(prev, LastOp.snap, s) - prev.last_value[s][1])
                                        * TicksPerSecond,
                                    LastOp.gap)
                     ELSE Last(mm.values[s]) = RawOf(prev, LastOp.snap, s)

-----------------------------------------------------------------------------
(* A live session that records CPU_Percent every second and is replayed *)

MaxCpuFrames == 3

CpuRaw == { 5, 50, 96 }

\* One poll cycle of run_worker_main in a session that records, one second
\* after the one before: the ingest, then capture_state
CpuRecordCycle ==
    /\ ~rp.loaded
    /\ Len(rec) < MaxCpuFrames
    /\ \E c \in CpuRaw :
         LET snap == CpuSnap(Some(c))
             t == now + TicksPerSecond
             m == RefreshData(mm, t, TicksPerSecond, snap, t)
         IN  /\ mm' = m
             /\ hist' = Append(hist, [ op |-> "ingest", snap |-> snap,
                                       gap |-> TicksPerSecond ])
             /\ file' = CaptureState(file, m, snap, PollVariables, t)
             /\ rec' = Append(rec, [ store |-> m, snap |-> snap,
                                     variables |-> PollVariables,
                                     t |-> t, written |-> ~file.closed ])
    /\ now' = now + TicksPerSecond
    /\ prev' = mm
    /\ UNCHANGED rp
    /\ UNCHANGED nonReplayVars

NextCpuRecord == CpuRecordCycle \/ CloseRecording \/ StartReplay \/ RunWorkerReplay

SpecCpuRecord == InitCpuSession /\ [][NextCpuRecord]_vars

\* the session has read CPU_Percent 5, 50, 96 in three cycles
ReadFiveFiftyNinetySix ==
    /\ Len(hist) = 3
    /\ \A i \in 1..3 : hist[i].op = "ingest"
    /\ [ i \in 1..3 |-> hist[i].snap["CPU_Percent"] ] = << Some(5), Some(50), Some(96) >>

\* C13: a session that has read CPU_Percent 5, 50, 96 at one-second cycles
\* holds the series [45, 46], and when its three frames have been replayed
\* the replaying session holds the same two values in the same order.
C13_RecordedRatesReplayed ==
    ReadFiveFiftyNinetySix =>
        /\ CpuAfter = << 45, 46 >>
        /\ ( /\ rp.loaded
             /\ Len(rp.rm.replay_data) = 3
             /\ rp.rm.current_replay_id = 3 ) =>
               rp.mm.values["CPU_Percent"] = CpuAfter

-----------------------------------------------------------------------------
(* A poll cycle on the main connection: the worker's thread runs the       *)
(* queries of WorkerDataProcessor one after the other with execute and a   *)
(* fetch; db is the main connection and no other thread uses it.           *)

\* errors the server answers with, and queries run
MaxLosses == 2
MaxPollQueries == 3

PollThread == 1

\* a connected tab between two poll cycles, its main connection open
InitPoll == InitDbFaults(MaxLosses) /\ IdleMetric /\ InitReplay /\ PollingSched /\ InitKeys /\ InitGraph /\ IdleManager

\* process_postgresql_data: the next query of the cycle
PollQuery(w) ==
    /\ workers[w].pc = "poll"
    /\ th[PollThread].pc \in { "idle", "done" }
    /\ started < MaxPollQueries
    /\ \E q \in Queries :
         th' = [ th EXCEPT ![PollThread] =
                   [ IdleThread EXCEPT !.pc = "e_connected", !.query = q,
                                       !.known = q \in db.privilege_errors_notified ] ]
    /\ started' = started + 1
    /\ UNCHANGED <<db, cursors, faults>>
    /\ UNCHANGED nonDbVars

\* run_worker_main after the queries: refresh_data
PollIngest(w) ==
    /\ workers[w].pc = "poll"
    /\ th[PollThread].pc = "done"
    /\ mm' = RefreshData(mm, workers[w].start, sch.polling_latency, PollSnap, now)
    /\ prev' = mm
    /\ workers' = [ workers EXCEPT ![w].pc = "capture" ]
    /\ UNCHANGED <<now, hist, sch, timers, events>>
    /\ UNCHANGED <<dbVars, replayVars, kem, graph, man>>

\* run_worker_main, except ManualException, when execute has raised:
\* disconnect_tab closes the connection
PollRaise(w) ==
    /\ workers[w].pc = "poll"
    /\ th[PollThread].pc = "raised"
    /\ WorkerFail(w)
    /\ db' = [ db EXCEPT !.connected = FALSE ]
    /\ UNCHANGED <<cursors, th, faults, started>>
    /\ UNCHANGED <<metricVars, replayVars, kem, graph, man>>

NextPoll ==
    \/ \E i \in DOMAIN timers : TimerFire(i)
    \/ \E w \in DOMAIN workers :
          \/ WorkerBegin(w)
          \/ PollQuery(w)
          \/ PollIngest(w)
          \/ PollRaise(w)
          \/ WorkerCapture(w)
    \/ ExecCheckConnected(PollThread)
    \/ ExecCheckFlag(PollThread)
    \/ ExecCheckPrivilege(PollThread)
    \/ ExecSetFlag(PollThread)
    \/ ExecCursor(PollThread)
    \/ ExecRun(PollThread)
    \/ ExecClearFlag(PollThread)
    \/ ExecSetSuccessful(PollThread)
    \/ ErrClearFlag(PollThread)
    \/ ErrClearSuccessful(PollThread)
    \/ ErrHandle(PollThread)
    \/ FetchCheck(PollThread)
    \/ FetchRows(PollThread)
    \/ HandleStateChanged

SpecPoll == InitPoll /\ [][NextPoll]_vars

\* C14: one call of execute calls connect to reconnect at most
\* max_reconnect_attempts times, whatever the server answers.
C14_ReconnectsBounded ==
    \A t \in Threads : th[t].reconnects <= MaxReconnectAttempts

\* the worker of the poll cycle has handled what execute raised
RaiseHandled ==
    /\ th[PollThread].pc = "raised"
    /\ sch.worker # 0
    /\ workers[sch.worker].pc = "done"

\* C15: when every reconnect attempt of the loop has failed, execute raises
\* ManualException; the worker then sets worker_cancel_error and
\* disconnect_tab cancels it and closes the connection, no timer is left
\* pending, and the handler of the CANCELLED message asks the user to
\* reconnect.  As long as execute has not raised, the session is not
\* cancelled.
C15_ExhaustedCancels ==
    /\ th[PollThread].attempt = MaxReconnectAttempts =>
          th[PollThread].pc \in { "e_set", "raised" }
    /\ RaiseHandled =>
          /\ sch.worker_cancel_error
          /\ sch.disconnected
          /\ ~sch.connected
          /\ ~db.connected
          /\ workers[sch.worker].state = "cancelled"
          /\ Pending = {}
          /\ events = <<>> => sch.prompted
    /\ th[PollThread].pc # "raised" =>
          /\ ~sch.worker_cancel_error
          /\ ~sch.disconnected
          /\ \A w \in DOMAIN workers : workers[w].state # "cancelled"

\* three reconnect attempts in a row have failed, and the user is asked to
\* reconnect
C15_Witness ==
    /\ RaiseHandled
    /\ th[PollThread].attempt = MaxReconnectAttempts
    /\ th[PollThread].err = "operational"
    /\ th[PollThread].reconnects = MaxReconnectAttempts
    /\ sch.worker_cancel_error
    /\ sch.prompted

\* C17: a call of execute that begins when its query text is in
\* privilege_errors_notified returns without passing the query to the
\* server and without a notification; the user is notified once for a query
\* text, when it enters the set, and never again; the set only grows; a
\* query text that is not in the set is passed to the server.
C17_PrivilegeSkippedOnce ==
    /\ [] ( /\ \A t \in Threads :
                 /\ th[t].known => ~th[t].sent
                 /\ ( /\ th[t].pc \in { "done", "raised" }
                      /\ ~th[t].known ) => th[t].sent
            /\ \A q \in Queries :
                 db.notes[q] = IF q \in db.privilege_errors_notified THEN 1 ELSE 0 )
    /\ [][ /\ db.privilege_errors_notified \subseteq db'.privilege_errors_notified
           /\ \A t \in Threads, q \in Queries :
                 (th[t].known /\ th'[t].known /\ th[t].query = q /\ th'[t].query = q)
                     => db'.notes[q] = db.notes[q] ]_vars

\* a query met a privilege error, was skipped the next time it was run, and
\* the other query was then run and its rows fetched
C17_Witness ==
    /\ db.privilege_errors_notified = { "qa" }
    /\ db.notes["qa"] = 1
    /\ started = 3
    /\ th[PollThread].pc = "done"
    /\ th[PollThread].query = "qb"
    /\ th[PollThread].sent
    /\ th[PollThread].result = RowsOf(PollThread)
    /\ Len(cursors) = 2

-----------------------------------------------------------------------------
(* Properties of a poll cycle that fails to connect *)

\* in this step the thread of worker w ends in run_worker_main's handler of
\* ManualException without having started its poll: db_connect has raised
ConnectFailed(w) == workers[w].pc = "begin" /\ workers'[w].pc = "done"

\* C16: when db_connect raises in a session that is not connected, the
\* cycle ends there: worker_cancel_error is set, the session is
\* disconnected and the worker cancelled, nothing is ingested and no frame
\* written, the tab's timer is not pending and no timer is set; and the
\* handler of the CANCELLED message sets no timer and starts no worker, it
\* asks the user to reconnect.
C16_ConnectFailureEndsCycle ==
    [][ /\ \A w \in DOMAIN workers : ConnectFailed(w) =>
              /\ ~sch.connected
              /\ sch'.worker_cancel_error
              /\ ~sch'.connected
              /\ sch'.disconnected
              /\ workers'[w].state = "cancelled"
              /\ mm' = mm
              /\ file' = file
              /\ Len(timers') = Len(timers)
              /\ \A i \in DOMAIN timers : timers'[i] = "pending" => timers[i] = "pending"
              /\ sch.worker_timer # 0 => timers'[sch.worker_timer] # "pending"
        /\ ( /\ events # <<>>
             /\ events' = Tail(events)
             /\ Head(events).state = "cancelled" ) =>
              /\ timers' = timers
              /\ workers' = workers
              /\ mm' = mm
              /\ file' = file
              /\ sch.worker_cancel_error => sch'.prompted
      ]_vars

\* the first cycle of the tab could not connect: nothing was ingested or
\* written, and the user has been asked to reconnect
C16_Witness ==
    /\ Len(workers) = 1
    /\ workers[1].state = "cancelled"
    /\ workers[1].pc = "done"
    /\ sch.worker_previous_start_time = 0
    /\ sch.worker_cancel_error
    /\ sch.disconnected
    /\ sch.prompted
    /\ ~mm.initialized
    /\ file.lines = <<>>
    /\ timers = <<>>

-----------------------------------------------------------------------------
(* KeyEventManager: debouncing of key presses *)

MaxPresses == 3

\* time between one press and the next, in milliseconds
Delays == { 25, 75, 275, 300 }

default_debounce_interval == 50

key_debounce_intervals ==
    [ k \in { "left_square_bracket", "right_square_bracket", "space", "minus" } |->
        IF k \in { "space", "minus" } THEN 300 ELSE 100 ]

\* Faulty variant of DebounceInterval: one interval for every key
DebounceIntervalDefault(k) == default_debounce_interval

\* key_debounce_intervals.get(key, default_debounce_interval)
DebounceInterval(k) ==
    IF k \in DOMAIN key_debounce_intervals
    THEN key_debounce_intervals[k]
    ELSE default_debounce_interval

\* now - last_time < debounce_interval, last_time being datetime.min for a
\* key without one
TooSoon(k, t) ==
    /\ kem.last_key_time[k] # None
    /\ t - kem.last_key_time[k][1] < DebounceInterval(k)

\* process_key_event after the debounce, for the keys of a live session:
\* the validation, then the key's command
KeyCommand(k) ==
    IF k = "right_square_bracket" \/ ~KeyAccepted
    THEN UNCHANGED schedVars
    ELSE IF k = "p"
    THEN /\ sch' = [ sch EXCEPT !.pause_refresh = ~@, !.last = "other" ]
         /\ UNCHANGED <<workers, timers, events>>
    ELSE IF sch.worker = 0 \/ workers[sch.worker].state # "running"
    THEN /\ timers' = Stop(timers, sch.worker_timer)
         /\ workers' = RunWorkerMain(workers)
         /\ sch' = [ sch EXCEPT !.disconnected = FALSE, !.last = "other" ]
         /\ UNCHANGED events
    ELSE UNCHANGED schedVars

\* process_key_event(key), d milliseconds after the press before
KeyPress(k, d) ==
    /\ Len(kem.presses) < MaxPresses
    /\ LET t == kem.clock + d
       IN  IF TooSoon(k, t)
           THEN /\ kem' = [ kem EXCEPT !.clock = t,
                              !.presses = Append(@, [ key |-> k, t |-> t, accepted |-> FALSE ]) ]
                /\ UNCHANGED schedVars
           ELSE /\ kem' = [ kem EXCEPT !.clock = t,
                              !.last_key_time[k] = Some(t),
                              !.presses = Append(@, [ key |-> k, t |-> t, accepted |-> TRUE ]) ]
                /\ KeyCommand(k)
    /\ UNCHANGED <<metricVars, dbVars, replayVars, graph, man>>

NextKeys == \E k \in Keys, d \in Delays : KeyPress(k, d)

InitKeysSession == InitKeys /\ InitGraph /\ IdleManager /\ IdleMetric /\ InitDb /\ InitReplay /\ PollingSched

SpecKeys == InitKeysSession /\ [][NextKeys]_vars

\* the last press of key k before press j that was not dropped, 0 if none
LastAccepted(k, j) ==
    LET S == { i \in 1..(j - 1) : kem.presses[i].key = k /\ kem.presses[i].accepted }
    IN  IF S = {} THEN 0 ELSE CHOOSE i \in S : \A h \in S : h <= i

\* C18: a press of a key less than the key's gap (300 ms for space and
\* minus, 100 ms for the replay step keys, 50 ms for any other key) after
\* the last accepted press of that key is dropped and changes nothing; any
\* other press is accepted, whatever was pressed on other keys; so two
\* accepted presses of one key are at least the gap apart
C18_Debounce ==
    /\ [](LET Gap(k) == CASE k \in { "space", "minus" } -> 300
                         [] k \in { "left_square_bracket", "right_square_bracket" } -> 100
                         [] OTHER -> 50
              P == kem.presses
          IN  /\ \A j \in DOMAIN P :
                    LET i == LastAccepted(P[j].key, j)
                    IN  P[j].accepted <=> (i = 0 \/ P[j].t - P[i].t >= Gap(P[j].key))
              /\ \A i, j \in DOMAIN P :
                    (i < j /\ P[i].key = P[j].key /\ P[i].accepted /\ P[j].accepted)
                        => P[j].t - P[i].t >= Gap(P[j].key))
    /\ [][ (Len(kem'.presses) > Len(kem.presses) /\ ~kem'.presses[Len(kem'.presses)].accepted)
              => /\ kem'.last_key_time = kem.last_key_time
                 /\ UNCHANGED <<schedVars, metricVars, dbVars, replayVars, graph, man>> ]_vars

\* space is dropped 100 ms after an accepted space, with an accepted p in
\* between
C18_Witness ==
    /\ Len(kem.presses) = 3
    /\ kem.presses[1] = [ key |-> "space", t |-> 25, accepted |-> TRUE ]
    /\ kem.presses[2] = [ key |-> "p", t |-> 50, accepted |-> TRUE ]
    /\ kem.presses[3] = [ key |-> "space", t |-> 125, accepted |-> FALSE ]
    /\ Len(workers) = 2
    /\ sch.pause_refresh

-----------------------------------------------------------------------------
(* Rendering while a poll cycle is in flight: refresh_data runs on the     *)
(* worker's thread, the handlers that render run on the event loop          *)

\* poll workers of a session in which three cycles run
MaxRenderWorkers == 3

\* refresh_data, statement by statement: the position after the stores are
\* updated, and the position after each of the calls that follow
IngestStages ==
    << "per_second", "replication_lag", "cache_hit_ratio", "last_value",
       "datetime", "cleanup", "initialized" >>

\* the call of refresh_data made at position pc, on store m at time t
IngestStage(pc, m, t) ==
    CASE pc = "per_second" -> IF m.replay_file THEN m ELSE UpdateMetricsPerSecondValues(m)
      [] pc = "replication_lag" -> IF m.replay_file THEN m ELSE UpdateMetricsReplicationLag(m)
      [] pc = "cache_hit_ratio" -> IF m.replay_file THEN m ELSE UpdatePgCacheHitRatio(m)
      [] pc = "last_value" -> IF m.replay_file THEN m ELSE UpdateMetricsLastValue(m)
      [] pc = "datetime" -> AddMetricDatetime(m)
      [] pc = "cleanup" -> DaemonCleanupData(m, t)
      [] pc = "initialized" -> [ m EXCEPT !.initialized = TRUE ]

\* the place of the series at which the loop of
\* update_metrics_per_second_values raises, on a subtraction from or of a
\* value that is no number or on int() of one; 0 if it does not raise
RaisingPlace(m) ==
    LET R == { Place(s) : s \in { r \in Series :
                  /\ Applicable(m, r)
                  /\ m.last_value[r] # None
                  /\ \/ Malformed(m.raw[r])
                     \/ Registry[r].per_second /\ Malformed(m.last_value[r]) } }
    IN  IF R = {} THEN 0 ELSE CHOOSE i \in R : \A j \in R : i <= j

\* the call of refresh_data made at position pc raises TypeError or
\* ValueError
StageRaises(pc, m) ==
    /\ ~m.replay_file
    /\ CASE pc = "per_second" -> RaisingPlace(m) # 0
          [] pc = "replication_lag" -> Malformed(m.raw["Seconds_Behind"])
          [] pc = "cache_hit_ratio" ->
                Malformed(m.raw["blks_hit"]) \/ Malformed(m.raw["blks_read"])
          [] OTHER -> FALSE

\* the store the call that raises leaves behind
StageRaised(pc, m) ==
    IF pc = "per_second" THEN PerSecondBefore(m, RaisingPlace(m)) ELSE m

\* the position after pc; capture_state follows refresh_data
NextStage(pc) ==
    LET i == CHOOSE j \in 1..Len(IngestStages) : IngestStages[j] = pc
    IN  IF i = Len(IngestStages) THEN "capture" ELSE IngestStages[i + 1]

\* run_worker_main: the data is collected and refresh_data is entered, its
\* arguments stored and the raw data stores updated; or a query ends in
\* ManualException
IngestEnterWith(w, snap) ==
    /\ workers[w].pc = "poll"
    /\ \/ /\ mm' = [ mm EXCEPT
                       !.worker_start_time = Some(workers[w].start),
                       !.polling_latency = sch.polling_latency,
                       !.raw = [ Update(mm.raw, snap) EXCEPT
                                   !["Seconds_Behind"] = snap["Seconds_Behind"] ] ]
          /\ prev' = mm
          /\ workers' = [ workers EXCEPT ![w].pc = IngestStages[1] ]
          /\ sch' = [ sch EXCEPT !.last = "other" ]
          /\ UNCHANGED <<timers, events>>
       \/ /\ WorkerFail(w)
          /\ UNCHANGED <<mm, prev>>
    /\ UNCHANGED <<now, hist, file, rec, rp>>
    /\ UNCHANGED <<dbVars, kem, graph, man>>

IngestEnter(w) == IngestEnterWith(w, PollSnap)

\* refresh_data: its next call, which returns or raises; what it raises
\* passes through run_worker_main
IngestStep(w) ==
    /\ workers[w].pc \in { IngestStages[i] : i \in 1..Len(IngestStages) }
    /\ IF StageRaises(workers[w].pc, mm)
       THEN /\ mm' = StageRaised(workers[w].pc, mm)
            /\ workers' = Raise(workers, w)
            /\ events' = RaiseEvents(workers, w, events)
       ELSE /\ mm' = IngestStage(workers[w].pc, mm, now)
            /\ workers' = [ workers EXCEPT ![w].pc = NextStage(@) ]
            /\ UNCHANGED events
    /\ sch' = [ sch EXCEPT !.last = "other" ]
    /\ UNCHANGED <<now, prev, hist, timers, replayVars>>
    /\ UNCHANGED <<dbVars, kem, graph, man>>

\* key "3": the graphs panel is toggled and update_graphs called
KeyGraphs ==
    /\ KeyAccepted
    /\ graph' = UpdateGraphs(mm)
    /\ sch' = [ sch EXCEPT !.last = "other" ]
    /\ UNCHANGED <<workers, timers, events, metricVars, replayVars>>
    /\ UNCHANGED <<dbVars, kem, man>>

\* the terminal is resized: Graph.on_resize of every Graph widget, which
\* renders again what the widget was given last
Resize ==
    /\ graph' = [ g \in GraphGroups |->
                    IF graph[g].metric_instance THEN RenderGraph(g, mm)
                    ELSE [ graph[g] EXCEPT !.plot = None ] ]
    /\ sch' = [ sch EXCEPT !.last = "other" ]
    /\ UNCHANGED <<workers, timers, events, metricVars, replayVars>>
    /\ UNCHANGED <<dbVars, kem, man>>

NextRender ==
    \/ \E w \in DOMAIN workers :
          WorkerBegin(w) \/ IngestEnter(w) \/ IngestStep(w) \/ WorkerCapture(w)
    \/ \E i \in DOMAIN timers : TimerFireWithin(i, MaxRenderWorkers)
    \/ HandleStateChanged
    \/ KeyGraphs
    \/ Resize

SpecRender == InitSchedSession /\ [][NextRender]_vars

\* a worker is inside refresh_data
Ingesting ==
    \E w \in DOMAIN workers :
        workers[w].pc \in { IngestStages[i] : i \in 1..Len(IngestStages) }

\* the statements of refresh_data, one after the other, make the store
\* that RefreshData gives
StagesMakeRefreshData ==
    \A w \in DOMAIN workers :
        workers[w].pc = "capture"
            => mm = RefreshData(prev, workers[w].start, sch.polling_latency, PollSnap, now)

\* C19: whatever made a graph render (the completion of a cycle, a key, a
\* resize) and whether or not a cycle is in flight, the clock the graph
\* plots and every series it plots against it are equally long
C19_RenderedLengthsEqual ==
    \A g \in GraphGroups :
        graph[g].plot # None =>
            LET p == graph[g].plot[1]
            IN  \A s \in DOMAIN p.y : Len(p.y[s]) = Len(p.x)

-----------------------------------------------------------------------------
(* Poll cycles whose snapshot lacks a raw field or holds one that is no     *)
(* number                                                                   *)

\* the raw fields that go wrong: a counter, a field of the cache hit ratio,
\* the replication lag
BadFields == { "xact_commit", "blks_read", "Seconds_Behind" }

\* the snapshots of a cycle: all fields sound, or one field missing, null or
\* a text
RawSnapshots ==
    { PollSnap } \cup
    { [ PollSnap EXCEPT ![f] = v ] : f \in BadFields, v \in { None, Null, Text } }

NextRaw ==
    \/ \E w \in DOMAIN workers :
          \/ WorkerBegin(w)
          \/ \E snap \in RawSnapshots : IngestEnterWith(w, snap)
          \/ IngestStep(w)
          \/ WorkerCapture(w)
    \/ \E i \in DOMAIN timers : TimerFireWithin(i, MaxRenderWorkers)
    \/ HandleStateChanged

SpecRaw == InitSchedSession /\ [][NextRaw]_vars

\* C20: whatever raw fields a snapshot lacks or holds as null or text,
\* refresh_data does not raise: no poll worker ends in the state ERROR, for
\* which on_worker_state_changed sets no next tick
C20_IngestNeverRaises ==
    \A w \in DOMAIN workers : workers[w].state # "error"

-----------------------------------------------------------------------------
(* Properties of the log as a sequence of frames *)

\* the dict capture_state built for the i-th frame written
DataWritten(i) ==
    FrameData(Written[i].store, Written[i].snap, Written[i].variables, Written[i].t)

-----------------------------------------------------------------------------
(* capture_state in the poll cycle, with the failures of its try block     *)

\* what goes wrong in the try block of capture_state: nothing; orjson.dumps
\* raises on a value it has no encoding for; the write raises an OSError
CaptureFaults == { "none", "dumps", "write" }

\* run_worker_main: capture_state, in which the exception of a fault or of
\* a write on the closed writer is logged, and the thread returns
WorkerCaptureFrame(w, fault) ==
    /\ workers[w].pc = "capture"
    /\ file' = IF fault = "none"
               THEN CaptureState(file, mm, PollSnap, PollVariables, now)
               ELSE file
    /\ rec' = Append(rec, [ store |-> mm, snap |-> PollSnap, variables |-> PollVariables,
                            t |-> now, written |-> fault = "none" /\ ~file.closed,
                            open |-> ~file.closed ])
    /\ workers' = Return(workers, w)
    /\ events' = ReturnEvents(workers, w, events)
    /\ sch' = [ sch EXCEPT !.last = "other" ]
    /\ UNCHANGED <<timers, metricVars, rp>>
    /\ UNCHANGED <<dbVars, kem, graph, man>>

NextCapture ==
    \/ \E w \in DOMAIN workers :
          \/ WorkerBegin(w)
          \/ WorkerIngest(w)
          \/ \E fault \in CaptureFaults : WorkerCaptureFrame(w, fault)
    \/ \E i \in DOMAIN timers : TimerFireWithin(i, MaxRenderWorkers)
    \/ HandleStateChanged
    \/ CloseRecording

SpecCapture == InitSchedSession /\ [][NextCapture]_vars

\* capture_state has just run in worker w and wrote no frame
FrameLost(w) ==
    /\ workers[w].pc = "capture"
    /\ workers'[w].pc = "done"
    /\ ~rec'[Len(rec')].written

\* C22: a capture_state that fails in building the line or in writing it,
\* a write after close() included, raises nothing: the log is left as it
\* was, with every frame written before, and the worker returns as after
\* a frame written, so that its completion sets the next tick.
C22_CaptureFailureSwallowed ==
    /\ [](\A w \in DOMAIN workers : workers[w].state # "error")
    /\ [](/\ Len(file.lines) = Len(Written)
          /\ \A i \in 1..Len(Written) : file.lines[i] = OrjsonDumps(DataWritten(i)))
    /\ [][ \A w \in DOMAIN workers :
             FrameLost(w) =>
                /\ file'.lines = file.lines
                /\ workers[w].state = "running" =>
                      /\ workers'[w].state = "success"
                      /\ events' = Append(events, [ worker |-> w, state |-> "success" ])
         ]_vars

\* a frame was written, the next one was lost to a fault, the one after to
\* the closed writer, and a tick is pending
C22_Witness ==
    /\ Len(rec) = 3
    /\ rec[1].written /\ ~rec[2].written /\ ~rec[3].written
    /\ file.closed
    /\ Len(file.lines) = 1
    /\ Pending # {}
    /\ \A w \in DOMAIN workers : workers[w].state = "success"

-----------------------------------------------------------------------------
(* Replay of a file that cannot be loaded                                  *)

\* between the recording and the replay the file is removed, overwritten
\* with bytes that are no zstd stream, or one of its lines is garbled
DamageFile ==
    /\ ~rp.loaded
    /\ file.closed
    /\ file.damage = "none"
    /\ \E d \in Damages, k \in 1..MaxFrames :
         /\ d = "line" => k <= Len(file.lines)
         /\ d # "line" => k = 1
         /\ file' = [ file EXCEPT !.damage = d, !.at = IF d = "line" THEN k ELSE 0 ]
    /\ UNCHANGED <<rec, rp, metricVars>>
    /\ UNCHANGED nonReplayVars

NextLoad == NextReplay \/ DamageFile

SpecLoad == InitReplaySession /\ [][NextLoad]_vars

\* C23: a replay session started on a file that is missing, is no zstd
\* stream or has a line that is not JSON holds an empty log, with no frame
\* of the lines before the bad one, and every get_next_refresh_interval,
\* the first included, returns None.
C23_BadFileLoadsEmpty ==
    (rp.loaded /\ file.damage # "none") =>
        /\ rp.rm.replay_data = <<>>
        /\ rp.rm.current_replay_id = 0
        /\ \A i \in DOMAIN rp.rets : rp.rets[i] = None

\* two frames were written, the second line was garbled, and the replay
\* session has asked for a frame
C23_Witness ==
    /\ Len(Written) = 2
    /\ file.damage = "line" /\ file.at = 2
    /\ rp.loaded
    /\ rp.rets # <<>>
    /\ rp.rets[1] = None
    /\ rp.worker = "cancelled"

-----------------------------------------------------------------------------
(* Properties of the ingest at the edges of its arithmetic                 *)

\* the series whose value is a rate
PerSecondSeries == { s \in Series : Registry[s].per_second }

\* the last operation was an ingest with a cycle time of 0
ZeroCycle ==
    /\ hist # <<>>
    /\ hist[Len(hist)].op = "ingest"
    /\ hist[Len(hist)].gap = 0

\* C24, as claimed: an ingest with a cycle time of 0 appends 0 to every
\* rate-derived series and sets its last_value to the raw value.
C24_ZeroCycleAppendsZero ==
    ZeroCycle =>
        \A s \in PerSecondSeries :
            /\ mm.values[s] = Append(prev.values[s], 0)
            /\ mm.last_value[s] = Some(Get(mm.raw, s))

\* C24, amended: an ingest with a cycle time of 0 appends 0 to every
\* rate-derived series it emits for (the series is one of the session's
\* connection source, had a last_value, and the store was initialized) and
\* leaves the values of the others as they were; the last_value of every
\* rate-derived series is the raw value of the cycle.
C24_ZeroCycleEmitsZero ==
    ZeroCycle =>
        \A s \in PerSecondSeries :
            /\ mm.values[s] =
                 IF /\ Applicable(prev, s)
                    /\ prev.last_value[s] # None
                    /\ prev.initialized
                 THEN Append(prev.values[s], 0)
                 ELSE prev.values[s]
            /\ mm.last_value[s] = Some(Get(mm.raw, s))

\* a cycle of time 0 in which the counter had moved by 50 since the cycle
\* before, and 0 was appended after a rate that was not 0
C24_Witness ==
    /\ ZeroCycle
    /\ prev.initialized
    /\ prev.last_value["xact_commit"] = Some(100)
    /\ mm.last_value["xact_commit"] = Some(150)
    /\ Len(mm.values["xact_commit"]) = 2
    /\ mm.values["xact_commit"][1] # 0
    /\ mm.values["xact_commit"][2] = 0

\* poll cycles of the session that reads block counters
MaxRatioCycles == 2

\* blks_hit and blks_read of database_stats: a count, or no such key
BlockCounts == { None, Some(0), Some(1), Some(2), Some(3) }

InitRatio ==
    /\ mm = NewMetricManager(FALSE, FALSE)
    /\ now = 0
    /\ prev = mm
    /\ hist = <<>>

\* one poll cycle, five seconds after the one before, whose database_stats
\* hold the block counters bh and br
IngestBlocks ==
    /\ Len(hist) < MaxRatioCycles
    /\ \E bh \in BlockCounts, br \in BlockCounts :
         LET snap == Snap(Some(5), Some(8), Some(100), bh, br, None, None, Some(0))
             g == 5 * TicksPerSecond
         IN  /\ now' = now + g
             /\ mm' = RefreshData(mm, now + g, g, snap, now + g)
             /\ hist' = Append(hist, [ op |-> "ingest", snap |-> snap, gap |-> g ])
    /\ prev' = mm
    /\ UNCHANGED nonMetricVars

NextRatio == IngestBlocks

InitRatioSession ==
    InitRatio /\ InitDb /\ InitReplay /\ InitSched /\ InitKeys /\ InitGraph /\ IdleManager

SpecRatio == InitRatioSession /\ [][NextRatio]_vars

\* the value the last cycle appended to the cache hit ratio series
EmittedRatio == mm.values["cache_hit_ratio"][Len(mm.values["cache_hit_ratio"])]

\* blks_hit + blks_read of the store
TotalBlocks == Get(mm.raw, "blks_hit") + Get(mm.raw, "blks_read")

\* round(100 * blks_hit / (blks_hit + blks_read), 1), in tenths of a percent
RatioTenths == RoundDiv(Get(mm.raw, "blks_hit") * 1000, TotalBlocks)

\* C25: the cache hit ratio a cycle emits is 100 when blks_hit + blks_read
\* is 0, and otherwise 100 * blks_hit / (blks_hit + blks_read) rounded to
\* one decimal, a value from 0 to 100.
C25_RatioToOneDecimal ==
    (hist # <<>> /\ prev.initialized) =>
        /\ TotalBlocks = 0 => EmittedRatio = 100
        /\ TotalBlocks > 0 =>
              /\ 10 * EmittedRatio = RatioTenths
              /\ 0 <= EmittedRatio /\ EmittedRatio <= 100

\* what the emitted ratio does satisfy: the default, the range, and the
\* whole percents of the rounded ratio
RatioWholePercent ==
    (hist # <<>> /\ prev.initialized) =>
        /\ TotalBlocks = 0 => EmittedRatio = 100
        /\ TotalBlocks > 0 =>
              /\ 10 * EmittedRatio <= RatioTenths
              /\ RatioTenths < 10 * EmittedRatio + 10
              /\ 0 <= EmittedRatio /\ EmittedRatio <= 100

\* the series with save_history=False
LatestOnlySeries == Series \ AllMetricsDataHistory

\* the last operation was an ingest and it emitted for series s
EmittedFor(s) ==
    /\ hist # <<>>
    /\ hist[Len(hist)].op = "ingest"
    /\ Applicable(prev, s)
    /\ prev.last_value[s] # None
    /\ prev.initialized

\* the last ingest popped entries of the clock
Evicted ==
    /\ hist # <<>>
    /\ hist[Len(hist)].op = "ingest"
    /\ Len(mm.datetimes) <= Len(prev.datetimes)
    /\ prev.datetimes # <<>>

\* C26: a series with save_history=False never holds more than one value.
\* An ingest that emits for it leaves exactly the value emitted, whether
\* the series was empty (the value is appended) or held one (it is
\* overwritten); an ingest that does not emit for it, evictions included,
\* leaves it as it was.
C26_LatestOnly ==
    \A s \in LatestOnlySeries :
        /\ Len(mm.values[s]) <= 1
        /\ EmittedFor(s) => mm.values[s] = << Get(mm.raw, s) >>
        /\ (hist # <<>> /\ hist[Len(hist)].op = "ingest" /\ ~EmittedFor(s)) =>
              mm.values[s] = prev.values[s]

\* a daemon-mode cycle that overwrote the one value of Memory_Total with a
\* different one and evicted the clock entry of the cycle before
C26_Witness ==
    /\ mm.daemon_mode
    /\ EmittedFor("Memory_Total")
    /\ Evicted
    /\ prev.values["Memory_Total"] = << 8 >>
    /\ mm.values["Memory_Total"] = << 9 >>
    /\ Len(prev.values["CPU_Percent"]) = 1
    /\ Len(mm.values["CPU_Percent"]) = 1

-----------------------------------------------------------------------------
(* Calls on a ReplayManager, in any order                                  *)

\* calls made on the manager
MaxManagerCalls == 4

\* manager m after a call of op that returned ret
Called(m, op, ret) == [ m EXCEPT !.calls = Append(@, [ op |-> op, ret |-> ret ]) ]

\* ReplayManager(hastin) for every setting of record_for_replay and of
\* replay_dir (a directory or None)
InitManager ==
    \E record_for_replay \in BOOLEAN, replay_dir \in BOOLEAN :
        man = Construct(record_for_replay, replay_dir)

ManagerCaptureState ==
    /\ Len(man.calls) < MaxManagerCalls
    /\ man' = Called(CaptureStateOf(man, FrameData(mm, PollSnap, PollVariables, Len(man.calls))),
                     "capture_state", 0)
    /\ UNCHANGED <<metricVars, dbVars, replayVars, schedVars, kem, graph>>

ManagerCaptureGlobalVariableChange ==
    /\ Len(man.calls) < MaxManagerCalls
    /\ man' = Called(CaptureGlobalVariableChange(man, "max_connections", 100, 200),
                     "capture_global_variable_change", 0)
    /\ UNCHANGED <<metricVars, dbVars, replayVars, schedVars, kem, graph>>

ManagerGetNextRefreshInterval ==
    /\ Len(man.calls) < MaxManagerCalls
    /\ man' = Called(GetNextRefreshInterval(man).rm, "get_next_refresh_interval", 0)
    /\ UNCHANGED <<metricVars, dbVars, replayVars, schedVars, kem, graph>>

ManagerClose ==
    /\ Len(man.calls) < MaxManagerCalls
    /\ man' = Called(Close(man), "close", 0)
    /\ UNCHANGED <<metricVars, dbVars, replayVars, schedVars, kem, graph>>

ManagerGetFileSize ==
    /\ Len(man.calls) < MaxManagerCalls
    /\ \E n \in FileSizes(man) : man' = Called(man, "get_file_size", n)
    /\ UNCHANGED <<metricVars, dbVars, replayVars, schedVars, kem, graph>>

NextManager ==
    \/ ManagerCaptureState
    \/ ManagerCaptureGlobalVariableChange
    \/ ManagerGetNextRefreshInterval
    \/ ManagerClose
    \/ ManagerGetFileSize

InitManagerSession ==
    InitManager /\ IdleMetric /\ InitDb /\ InitReplay /\ InitSched /\ InitKeys /\ InitGraph

SpecManager == InitManagerSession /\ [][NextManager]_vars

\* C27: on a manager whose record_for_replay is false no call creates or
\* writes a recording file, global_variable_changes stays empty, the cursor
\* stays at 0 and every get_file_size returned 0.
C27_NotRecordingNoEffect ==
    ~man.record_for_replay =>
        /\ man.file = None
        /\ ~man.recording
        /\ man.global_variable_changes = <<>>
        /\ man.current_replay_id = 0
        /\ \A i \in DOMAIN man.calls :
              man.calls[i].op = "get_file_size" => man.calls[i].ret = 0

\* record_for_replay is false: capture_state, then
\* capture_global_variable_change, then get_file_size
C27_Witness ==
    /\ ~man.record_for_replay
    /\ Len(man.calls) = 3
    /\ man.calls[1].op = "capture_state"
    /\ man.calls[2].op = "capture_global_variable_change"
    /\ man.calls[3] = [ op |-> "get_file_size", ret |-> 0 ]

\* C28: once close() has run, no call, a further close() included, changes
\* the recorded file; on a manager without a recording close() creates
\* none.
C28_CloseIdempotent ==
    /\ [][ (man.file # None /\ man.file[1].closed) => man'.file = man.file ]_vars
    /\ [][ man.file = None => man'.file = None ]_vars

\* a recording of one frame was closed three times
C28_Witness ==
    /\ man.recording
    /\ Len(man.calls) = 4
    /\ man.calls[1].op = "capture_state"
    /\ \A i \in 2..4 : man.calls[i].op = "close"
    /\ man.file[1].closed
    /\ Len(man.file[1].lines) = 1

-----------------------------------------------------------------------------
(* The filter of session variables as a function                           *)

\* C29: for the variables of every frame written, _filter_variables gives
\* the entries whose name holds none of ssl, password and key in any case
\* of letters, each with the value it had, and these are the
\* global_variables of the line; the variables the cycle held are the dict
\* that was passed in.
C29_FilterExact ==
    \A i \in 1..Len(Written) :
        LET variables == Written[i].variables
            out == FilterVariables(variables)
        IN  /\ DOMAIN out = { n \in DOMAIN variables : ~IsSensitive(n) }
            /\ \A n \in DOMAIN out : out[n] = variables[n]
            /\ OrjsonLoads(file.lines[i]).global_variables = out
            /\ variables \in VariableMaps

\* a frame written from the variables server_version and ssl_cert_file,
\* both with the value 17: server_version alone is kept, with 17
C29_Witness ==
    /\ Len(Written) >= 1
    /\ DOMAIN Written[1].variables = { server_version, ssl_cert_file }
    /\ FilterVariables(Written[1].variables) = [ n \in { server_version } |-> "17" ]
    /\ OrjsonLoads(file.lines[1]).global_variables[server_version] = "17"

-----------------------------------------------------------------------------
(* The poll loop under every way a cycle can end                           *)

\* a poll cycle returns, ends in ManualException or ends in an exception
\* run_worker_main does not catch
NextCycle ==
    \/ \E w \in DOMAIN workers :
          \/ WorkerBegin(w)
          \/ WorkerIngest(w)
          \/ \E snap \in RawSnapshots : IngestEnterWith(w, snap)
          \/ IngestStep(w)
          \/ WorkerCapture(w)
    \/ \E i \in DOMAIN timers : TimerFireWithin(i, MaxRenderWorkers)
    \/ HandleStateChanged

SpecCycle == InitSchedSession /\ [][NextCycle]_vars

\* every poll cycle started is over and its completion has been handled
CyclesHandled == Running = {} /\ events = <<>>

\* C30: once every poll cycle that started is over and handled, the tick
\* of the next cycle is set, or the session is disconnected with
\* worker_cancel_error set: no exception of a cycle ends the polling
\* without one of the two.
C30_CycleEndsScheduledOrDisconnected ==
    CyclesHandled =>
        \/ Pending # {}
        \/ sch.disconnected /\ sch.worker_cancel_error

-----------------------------------------------------------------------------
(* Which series an ingest emits for                                        *)

\* the raw fields of the category (MetricSource) a series reads
CategoryFields(s) ==
    CASE Registry[s].source = SYSTEM_UTILIZATION -> { "CPU_Percent", "Memory_Total" }
      [] Registry[s].source = DATABASE_STATS -> { "xact_commit", "blks_hit", "blks_read" }
      [] Registry[s].source = PGBOUNCER_POOLS -> { "cl_active" }
      [] Registry[s].source = PGBOUNCER_STATS -> { "xact_count" }
      [] OTHER -> {}

\* the dict of the category of s in snapshot snap is not empty
CategoryPresent(snap, s) == \E f \in CategoryFields(s) : snap[f] # None

\* the last operation was an ingest that evicted nothing
PlainIngest ==
    /\ hist # <<>>
    /\ hist[Len(hist)].op = "ingest"
    /\ ~mm.daemon_mode

\* the history-bearing series with a source category
SourcedHistorySeries == SourceToMetricsProcessing \cap AllMetricsDataHistory

\* C31, as claimed: an ingest appends a value to a series only if the
\* series' category is in the cycle's snapshot and the session's
\* connection source is one of the series' contexts.
C31_EmitsOnlyIfPresent ==
    PlainIngest =>
        \A s \in SourcedHistorySeries :
            Len(mm.values[s]) > Len(prev.values[s]) =>
                /\ CategoryPresent(hist[Len(hist)].snap, s)
                /\ mm.connection_source \in Registry[s].conn

\* C31, amended: an ingest appends a value to a series exactly when the
\* session's connection source is one of the series' contexts, the series
\* has a last_value and the store is initialized, whether or not the
\* category is in the snapshot; for a category that is not, the raw values
\* the emission is computed from are those the store held before.
C31_EmitsIfApplicable ==
    PlainIngest =>
        \A s \in SourcedHistorySeries :
            /\ Len(mm.values[s]) > Len(prev.values[s]) <=>
                  /\ mm.connection_source \in Registry[s].conn
                  /\ prev.last_value[s] # None
                  /\ prev.initialized
            /\ Len(mm.values[s]) \in { Len(prev.values[s]), Len(prev.values[s]) + 1 }
            /\ ~CategoryPresent(hist[Len(hist)].snap, s) =>
                  \A f \in CategoryFields(s) : mm.raw[f] = prev.raw[f]

\* a cycle whose snapshot has no database_stats appended the rate 0 to
\* xact_commit, and nothing to the PgBouncer series
C31_Witness ==
    /\ PlainIngest
    /\ ~CategoryPresent(hist[Len(hist)].snap, "xact_commit")
    /\ CategoryPresent(hist[Len(hist)].snap, "CPU_Percent")
    /\ mm.connection_source = postgresql
    /\ Len(mm.values["xact_commit"]) = Len(prev.values["xact_commit"]) + 1
    /\ mm.values["xact_commit"][Len(mm.values["xact_commit"])] = 0
    /\ mm.raw["xact_commit"] = Some(150)
    /\ mm.values["xact_count"] = <<>>
    /\ mm.values["cl_active"] = <<>>

-----------------------------------------------------------------------------
(* One frame for every poll cycle of a recording session                   *)

\* the capture_state calls made while the recording was open
CapturedOpen == SelectSeq(rec, LAMBDA r : r.open)

\* C32: while the recording is open, every poll cycle that reaches the end
\* of run_worker_main without an exception has appended exactly one frame,
\* which holds the metric store as the cycle's ingest left it; a cycle
\* that ended in ManualException appended none.
C32_OneFramePerCycle ==
    /\ Len(file.lines) = Len(CapturedOpen)
    /\ \A i \in 1..Len(CapturedOpen) :
          /\ i <= Len(file.lines)
          /\ file.lines[i] = OrjsonDumps(FrameData(CapturedOpen[i].store, CapturedOpen[i].snap,
                                                   CapturedOpen[i].variables, CapturedOpen[i].t))

\* what holds: the lines are the frames of the captures that did write, in
\* order, each with the store of its cycle after the ingest (clock entry
\* and values of the cycle included), and capture_state was called once in
\* every cycle that returned and in no cycle that ended in ManualException
FramesOfCompletedCycles ==
    /\ Len(file.lines) = Len(Written)
    /\ \A i \in 1..Len(Written) :
          /\ file.lines[i] = OrjsonDumps(DataWritten(i))
          /\ Written[i].store.initialized
          /\ Written[i].store.worker_start_time # None
    /\ Len(rec) = Cardinality({ w \in DOMAIN workers :
                                  workers[w].pc = "done" /\ workers[w].state = "success" })

-----------------------------------------------------------------------------
(* Disconnecting a session whose poll cycle is in flight                   *)

\* the disconnect key (process_key_event, TabManager.disconnect_tab) on a
\* connected session whose secondary connection runs no command: the
\* worker is cancelled, the timer stopped and the main connection, on
\* which the poll cycle runs its queries, closed
KeyDisconnectTab ==
    /\ sch.connected
    /\ ~sch.disconnected
    /\ sch' = [ DisconnectTab(sch) EXCEPT !.last = "other" ]
    /\ workers' = Cancel(workers, sch.worker)
    /\ events' = CancelEvents(workers, sch.worker, events)
    /\ timers' = Stop(timers, sch.worker_timer)
    /\ db' = [ db EXCEPT !.connected = FALSE ]
    /\ UNCHANGED <<cursors, th, faults, started>>
    /\ UNCHANGED <<metricVars, replayVars, kem, graph, man>>

NextCancel == NextPoll \/ KeyDisconnectTab

SpecCancel == InitPoll /\ [][NextCancel]_vars

\* C33: a disconnect leaves the connection open while an execute() is in
\* flight on it; after the disconnect the connection it closed is not
\* opened again and no further query is started.
C33_CancelCooperative ==
    /\ [][ ((\E t \in Threads : InFlight(t)) /\ ~sch.disconnected /\ sch'.disconnected)
              => db'.connected ]_vars
    /\ [][ (sch.disconnected /\ ~db.connected) => ~db'.connected ]_vars
    /\ [][ sch.disconnected => started' = started ]_vars

\* what holds: the disconnect does not stop the thread, which goes on from
\* where it was
CancelLeavesThread ==
    [][ (~sch.disconnected /\ sch'.disconnected) => th' = th ]_vars

\* the parts of C33 one by one
CancelKeepsConnection ==
    [][ ((\E t \in Threads : InFlight(t)) /\ ~sch.disconnected /\ sch'.disconnected)
           => db'.connected ]_vars
CancelNeverReopens ==
    [][ (sch.disconnected /\ ~db.connected) => ~db'.connected ]_vars
CancelStartsNothing ==
    [][ sch.disconnected => started' = started ]_vars

-----------------------------------------------------------------------------
(* The flag is_running_query between calls                                 *)

\* thread t is inside execute()
InExecute(t) ==
    th[t].pc \in { "e_connected", "e_flag", "e_reject", "e_priv", "e_set", "e_cursor",
                   "e_run", "e_clear", "e_les", "x_clear", "x_les", "x_handle" }

\* C34: when no thread is inside execute() on the connection,
\* is_running_query is False, however the calls before ended: with the
\* rows, with a privilege error, with a reconnect or with ManualException.
C34_FlagClearedOnEveryExit ==
    (\A t \in Threads : ~InExecute(t)) => ~db.is_running_query

\* one command ended in ManualException, and a command that ran beside it
\* or after it got its rows
C34_Witness ==
    /\ \A t \in Threads : ~InExecute(t)
    /\ \E t, u \in Threads :
          /\ th[t].pc = "raised"
          /\ th[t].err = "other"
          /\ th[u].pc = "done"
          /\ th[u].ok
          /\ th[u].result = RowsOf(u)
    /\ ~db.is_running_query

-----------------------------------------------------------------------------
(* Key "R" while a poll cycle is in flight: reset runs on the event loop,   *)
(* refresh_data on the worker's thread, and no lock is taken                *)

\* key "R": metric_manager.reset(), then update_graphs
KeyReset ==
    /\ KeyAccepted
    /\ mm' = Reset(mm)
    /\ graph' = UpdateGraphs(Reset(mm))
    /\ sch' = [ sch EXCEPT !.last = "other" ]
    /\ UNCHANGED <<now, prev, hist, workers, timers, events, replayVars>>
    /\ UNCHANGED <<dbVars, kem, man>>

NextReset ==
    \/ \E w \in DOMAIN workers :
          WorkerBegin(w) \/ IngestEnter(w) \/ IngestStep(w) \/ WorkerCapture(w)
    \/ \E i \in DOMAIN timers : TimerFireWithin(i, MaxRenderWorkers)
    \/ HandleStateChanged
    \/ KeyReset

SpecReset == InitSchedSession /\ [][NextReset]_vars

\* every series that has a source, keeps a history and applies to the
\* session holds as many values as the clock holds entries
HistoryAligned ==
    \A s \in SourcedHistorySeries :
        Applicable(mm, s) => Len(mm.values[s]) = Len(mm.datetimes)

\* C35: when no worker is inside refresh_data, the store is consistent
\* although reset may have run between two statements of refresh_data:
\* every applicable series with a history has as many values as the clock
\* has entries.
C35_ResetLeavesStoreConsistent == ~Ingesting => HistoryAligned

\* without key "R" the cycles leave the store aligned
AlignedWithoutReset == C35_ResetLeavesStoreConsistent

-----------------------------------------------------------------------------
(* The rows a rejected command reads *)

\* C36: a command whose execute() was rejected because another query was
\* running gets no data: the fetchall() that follows returns nothing, and
\* in particular not the rows of the other command.
C36_RejectedGetsNothing ==
    \A t \in Threads :
        (th[t].rejected /\ th[t].fetched) => th[t].result = <<>>

\* the rejected command has read the rows of the command that was running
RejectedReadsOthersRows ==
    \E t, u \in Threads :
        /\ t # u
        /\ th[t].rejected
        /\ th[t].fetched
        /\ th[t].result = RowsOf(u)

-----------------------------------------------------------------------------
(* What daemon_cleanup_data removes *)

\* the store of the last ingest as it entered daemon_cleanup_data
BeforeCleanup ==
    [ RefreshData([ prev EXCEPT !.daemon_mode = FALSE ], now, LastOp.gap, LastOp.snap, now)
        EXCEPT !.daemon_mode = prev.daemon_mode ]

\* the instant before which a clock entry is older than the retention window
TimeThreshold == now - RetentionSeconds * TicksPerSecond

\* C37: daemon_cleanup_data removes entries only from the front.  After an
\* ingest the clock and every series are suffixes of what they were when
\* the cleanup began; in daemon mode no clock entry that remains is older
\* than the retention window, and every entry removed was older; outside
\* daemon mode nothing is removed.
C37_EvictionFromFront ==
    (hist # <<>> /\ LastOp.op = "ingest") =>
        LET B == BeforeCleanup
            k == Len(B.datetimes) - Len(mm.datetimes)
        IN  /\ IsSuffix(mm.datetimes, B.datetimes)
            /\ \A s \in Series : IsSuffix(mm.values[s], B.values[s])
            /\ mm.daemon_mode =>
                  \A i \in DOMAIN mm.datetimes : Strptime(mm.datetimes[i]) >= TimeThreshold
            /\ \A i \in 1..k : Strptime(B.datetimes[i]) < TimeThreshold
            /\ \A s \in AllMetricsDataHistory :
                  Len(B.values[s]) - Len(mm.values[s]) \in { k, Len(B.values[s]) }
            /\ ~mm.daemon_mode =>
                  /\ Len(mm.datetimes) >= Len(prev.datetimes)
                  /\ \A s \in Series : Len(mm.values[s]) >= Len(prev.values[s])
                  /\ mm.datetimes = B.datetimes

\* an ingest in daemon mode whose cleanup removed the oldest clock entry and
\* the oldest value of xact_commit and kept the newest
C37_Witness ==
    /\ hist # <<>>
    /\ LastOp.op = "ingest"
    /\ mm.daemon_mode
    /\ Len(BeforeCleanup.datetimes) = 2
    /\ mm.datetimes = Tail(BeforeCleanup.datetimes)
    /\ Len(BeforeCleanup.values["xact_commit"]) = 2
    /\ mm.values["xact_commit"] = Tail(BeforeCleanup.values["xact_commit"])

-----------------------------------------------------------------------------
(* The cycles that follow a reset *)

\* the store holds no history
NoHistory(m) ==
    /\ m.datetimes = <<>>
    /\ \A s \in Series : m.values[s] = <<>>

\* the i-th operation before the last was a reset, or the construction of
\* the manager, and ingests followed
IngestsSinceReset(i) ==
    /\ Len(hist) >= i
    /\ \A j \in (Len(hist) - i + 1)..Len(hist) : hist[j].op = "ingest"
    /\ Len(hist) > i => hist[Len(hist) - i].op = "reset"

\* C38: reset wipes all history: right after it the clock is empty and every
\* series has no values and no last_value.  The first ingest after a reset
\* sets the baselines of the series it processes and appends no value and no
\* clock entry; the second ingest appends exactly one clock entry.
C38_ResetWipesHistory ==
    /\ IngestsSinceReset(0) =>
          /\ NoHistory(mm)
          /\ \A s \in Series : mm.last_value[s] = None
          /\ ~mm.initialized
    /\ IngestsSinceReset(1) =>
          /\ NoHistory(mm)
          /\ \A s \in Series :
                mm.last_value[s] =
                    IF s \in SourceToMetricsProcessing
                    THEN Some(RawOf(prev, LastOp.snap, s)) ELSE None
    /\ IngestsSinceReset(2) =>
          /\ NoHistory(prev)
          /\ mm.datetimes = << Strftime(now) >>
          /\ \A s \in Series : Len(mm.values[s]) <= 1

\* a reset and the two ingests that followed it: one clock entry, one value
C38_Witness ==
    /\ Len(hist) = 3
    /\ hist[1].op = "reset"
    /\ IngestsSinceReset(2)
    /\ mm.datetimes = << Strftime(now) >>
    /\ Len(mm.values["xact_commit"]) = 1

\* a reset has wiped a clock and series that held entries
ResetWipedEntries ==
    /\ hist # <<>>
    /\ LastOp.op = "reset"
    /\ prev.datetimes # <<>>
    /\ prev.values["xact_commit"] # <<>>
    /\ prev.last_value["xact_commit"] # None
    /\ NoHistory(mm)

-----------------------------------------------------------------------------
(* Playback driven by its ticks: run_worker_replay runs when the session   *)
(* starts and when the timer set by the handler of its SUCCESS goes off    *)

\* a tick of the replay worker on a tab that is active, not paused and not
\* covered: run_worker_replay asks for the next frame.  No tick follows a
\* worker that was cancelled
ReplayTick ==
    /\ rp.worker \in { "none", "success" }
    /\ RunWorkerReplay
    /\ Len(rp'.rets) = Len(rp.rets) + 1

NextPlayback == RecordCycle \/ CloseRecording \/ StartReplay \/ ReplayTick

SpecPlayback == InitReplaySession /\ [][NextPlayback]_vars

\* C39: when the playback is over (the replay worker is cancelled and no
\* tick is set), every frame of the log was taken once and in order, and
\* the tick that cancelled the worker was the one that found the cursor at
\* the end of the log.
C39_PlaybackPlaysEveryFrame ==
    (rp.loaded /\ rp.worker = "cancelled") =>
        LET n == Len(rp.rm.replay_data) IN
        /\ rp.rm.current_replay_id = n
        /\ Len(rp.rets) = n + 1
        /\ \A i \in 1..n :
              /\ rp.rets[i] # None
              /\ \A f \in DOMAIN rp.rets[i][1] : rp.rets[i][1][f] = rp.rm.replay_data[i][f]
        /\ rp.rets[n + 1] = None

\* the playback of a log of two frames is over after its first tick
PlaybackStopsAtFirstFrame ==
    /\ rp.loaded
    /\ rp.worker = "cancelled"
    /\ Len(rp.rm.replay_data) = 2
    /\ rp.rm.current_replay_id = 1
    /\ rp.rets # <<>>
    /\ rp.rets[1] # None

\* a playback never goes past its first tick
PlaybackHasOneTick == Len(rp.rets) <= 1

-----------------------------------------------------------------------------
(* The waits between the reconnect attempts of execute.  A daemon, whose    *)
(* max_reconnect_attempts is 999999999, goes on where an interactive        *)
(* session raises after three attempts.                                     *)

\* reconnects the server refuses the daemon
MaxDaemonRefusals == 7

\* the metric manager of a daemon
DaemonMetric ==
    /\ mm = NewMetricManager(FALSE, TRUE)
    /\ now = 0
    /\ prev = mm
    /\ hist = <<>>

\* a daemon between two poll cycles, its main connection open
InitBackoff ==
    InitDatabase(MaxLosses, MaxDaemonRefusals, DaemonReconnectAttempts) /\ DaemonMetric /\ InitReplay /\ PollingSched /\ InitKeys /\ InitGraph /\ IdleManager

SpecBackoff == InitBackoff /\ [][NextPoll]_vars

\* min(2^n, 20) for n = 0, 1, 2, ...: the wait starts at one second, doubles
\* and stays at twenty
BackoffDelays == << 1, 2, 4, 8, 16, 20, 20, 20, 20, 20 >>

\* C40: after the n-th failed reconnect in a row of one call of execute
\* (n = 0, 1, 2, ...), execute waits min(2^n, 20) seconds: one second after
\* the first, twice the wait before after each further one, and never more
\* than twenty.
C40_BackoffDoublesCapped ==
    \A t \in Threads :
        \A i \in DOMAIN th[t].slept :
            /\ th[t].slept[i] = BackoffDelays[i]
            /\ th[t].slept[i] <= 20
            /\ (i > 1 /\ th[t].slept[i] < 20) => th[t].slept[i] = 2 * th[t].slept[i - 1]

\* seven reconnects in a row have failed: the waits reached the cap
C40_Witness ==
    /\ th[PollThread].slept = << 1, 2, 4, 8, 16, 20, 20 >>
    /\ th[PollThread].attempt = 7
    /\ ~db.connected

=============================================================================
